---- MODULE Spec2Model ----
(***************************************************************************)
(* Model of the nvisy SDK client: the validating configuration builder     *)
(* (client/config.rs), the client handle (client/nvisy.rs) and the         *)
(* offset-based pagination arithmetic (model/mod.rs).                      *)
(*                                                                         *)
(* A Rust String is a sequence of characters; each character is a one      *)
(* character TLA+ string, except the two-byte character U+00E9 which is    *)
(* written "E9".  Option<T> is a sequence of length 0 (None) or 1 (Some).  *)
(* A Duration is the record [secs, nanos] that std::time::Duration keeps.  *)
(* A u32 is kept as two 16-bit limbs [hi, lo] so that 32-bit overflow is   *)
(* computed exactly.                                                       *)
(***************************************************************************)
EXTENDS Integers, Sequences, FiniteSets, TLC

VARIABLES
    builder,    \* NvisyConfigBuilder: the four optional fields
    pc,         \* "building" while the owned builder is alive, "done" once consumed
    config,     \* Option<NvisyConfig>: the configuration build() returned
    error,      \* Option<Error>: the error the last fallible call returned
    heap,       \* the Arc<NvisyClientInner> allocations
    handles,    \* the live NvisyClient handles
    out,        \* the value the last observing call returned
    via,        \* the constructor that made the client: "new", "build_client", "with_api_key"
    resp,       \* the PaginatedResponse being inspected: offset, limit, total
    prof,       \* build profile: overflow checks on ("debug") or off ("release")
    calls,      \* the service calls in flight or finished and not yet taken
    server,     \* the files the remote API stores: the content of file id i at i
    disk        \* the local files: for each path, its content if it exists

vars == <<builder, pc, config, error, heap, handles, via, out, resp, prof, calls, server, disk>>

-----------------------------------------------------------------------------
(* Bounds of the model. *)

MaxKeyLen == 2
MaxSecretLen == 5
MaxHandles == 3
MaxSmall == 2
MaxCalls == 2
MaxStored == 1

-----------------------------------------------------------------------------
(* Option<T>. *)

None == <<>>
Some(v) == <<v>>
IsSome(o) == Len(o) = 1
Unwrap(o) == o[1]

-----------------------------------------------------------------------------
(* Strings. *)

RECURSIVE StringsUpTo(_, _)
StringsUpTo(alphabet, n) ==
    IF n = 0 THEN {<<>>}
    ELSE LET shorter == StringsUpTo(alphabet, n - 1)
         IN  shorter \cup {Append(s, c) : s \in {t \in shorter : Len(t) = n - 1}, c \in alphabet}

\* char::is_whitespace, on the characters of the model
IsWhitespace(c) == c \in {" ", "\t", "\n"}

\* char::len_utf8
Utf8Len(c) == IF c = "E9" THEN 2 ELSE 1

\* str::len: the length in bytes
RECURSIVE ByteLen(_)
ByteLen(s) == IF s = <<>> THEN 0 ELSE Utf8Len(Head(s)) + ByteLen(Tail(s))

\* str::trim: leading and trailing whitespace removed
RECURSIVE TrimStart(_)
TrimStart(s) ==
    IF s # <<>> /\ IsWhitespace(Head(s)) THEN TrimStart(Tail(s)) ELSE s

RECURSIVE TrimEnd(_)
TrimEnd(s) ==
    IF s # <<>> /\ IsWhitespace(s[Len(s)]) THEN TrimEnd(SubSeq(s, 1, Len(s) - 1)) ELSE s

Trim(s) == TrimEnd(TrimStart(s))

\* str::starts_with
StartsWith(s, p) == Len(s) >= Len(p) /\ SubSeq(s, 1, Len(p)) = p

\* str::contains
Contains(s, p) ==
    \E i \in 0..(Len(s) - Len(p)) : SubSeq(s, i + 1, i + Len(p)) = p

RECURSIVE Concat(_)
Concat(parts) == IF parts = <<>> THEN <<>> ELSE Head(parts) \o Concat(Tail(parts))

-----------------------------------------------------------------------------
(* std::time::Duration. *)

NANOS_PER_SEC == 1000 * 1000 * 1000

Duration(s, n) == [secs |-> s, nanos |-> n]
from_secs(s) == Duration(s, 0)
is_zero(d) == d.secs = 0 /\ d.nanos = 0
DurationGt(a, b) == a.secs > b.secs \/ (a.secs = b.secs /\ a.nanos > b.nanos)

-----------------------------------------------------------------------------
(* client/config.rs: constants and the builder. *)

DEFAULT_BASE_URL ==
    <<"h","t","t","p","s",":","/","/","a","p","i",".","n","v","i","s","y",".","c","o","m">>

DEFAULT_TIMEOUT_SECS == 30
DEFAULT_TIMEOUT == from_secs(DEFAULT_TIMEOUT_SECS)

MAX_TIMEOUT_SECS == 300

HttpScheme == <<"h","t","t","p",":","/","/">>
HttpsScheme == <<"h","t","t","p","s",":","/","/">>

\* NvisyConfigBuilder::default(): every field unset
DefaultBuilder == [api_key |-> None, base_url |-> None, timeout |-> None, client |-> None]

default_base_url == DEFAULT_BASE_URL

\* default_timeout returning the ceiling instead of DEFAULT_TIMEOUT
default_timeout_Ceiling == from_secs(MAX_TIMEOUT_SECS)

default_timeout == DEFAULT_TIMEOUT

\* the generated setters (setter(into, strip_option, prefix = "with"))
with_api_key(b, k) == [b EXCEPT !.api_key = Some(k)]
with_base_url(b, u) == [b EXCEPT !.base_url = Some(u)]
with_timeout(b, d) == [b EXCEPT !.timeout = Some(d)]
with_client(b, c) == [b EXCEPT !.client = Some(Some(c))]
with_timeout_secs(b, secs) == with_timeout(b, from_secs(secs))

\* validate_config with is_empty() applied to the untrimmed key
validate_config_NoTrim(b) ==
    IF IsSome(b.api_key) /\ Unwrap(b.api_key) = <<>>
    THEN Some("API key cannot be empty")
    ELSE IF /\ IsSome(b.base_url)
            /\ ~StartsWith(Unwrap(b.base_url), HttpScheme)
            /\ ~StartsWith(Unwrap(b.base_url), HttpsScheme)
    THEN Some("Base URL must start with http:// or https://")
    ELSE IF IsSome(b.timeout) /\ is_zero(Unwrap(b.timeout))
    THEN Some("Timeout must be greater than 0")
    ELSE IF IsSome(b.timeout) /\ DurationGt(Unwrap(b.timeout), from_secs(MAX_TIMEOUT_SECS))
    THEN Some("Timeout cannot exceed 300 seconds (5 minutes)")
    ELSE None

\* validate_config testing the base URL for the prefix "http" only
validate_config_HttpPrefixOnly(b) ==
    IF IsSome(b.api_key) /\ Trim(Unwrap(b.api_key)) = <<>>
    THEN Some("API key cannot be empty")
    ELSE IF IsSome(b.base_url) /\ ~StartsWith(Unwrap(b.base_url), <<"h","t","t","p">>)
    THEN Some("Base URL must start with http:// or https://")
    ELSE IF IsSome(b.timeout) /\ is_zero(Unwrap(b.timeout))
    THEN Some("Timeout must be greater than 0")
    ELSE IF IsSome(b.timeout) /\ DurationGt(Unwrap(b.timeout), from_secs(MAX_TIMEOUT_SECS))
    THEN Some("Timeout cannot exceed 300 seconds (5 minutes)")
    ELSE None

\* validate_config with the ceiling compared by >= instead of >
validate_config_TimeoutGe(b) ==
    IF IsSome(b.api_key) /\ Trim(Unwrap(b.api_key)) = <<>>
    THEN Some("API key cannot be empty")
    ELSE IF /\ IsSome(b.base_url)
            /\ ~StartsWith(Unwrap(b.base_url), HttpScheme)
            /\ ~StartsWith(Unwrap(b.base_url), HttpsScheme)
    THEN Some("Base URL must start with http:// or https://")
    ELSE IF IsSome(b.timeout) /\ is_zero(Unwrap(b.timeout))
    THEN Some("Timeout must be greater than 0")
    ELSE IF IsSome(b.timeout) /\ ~DurationGt(from_secs(MAX_TIMEOUT_SECS), Unwrap(b.timeout))
    THEN Some("Timeout cannot exceed 300 seconds (5 minutes)")
    ELSE None

\* validate_config: None for Ok(()), Some(message) for Err(message)
validate_config(b) ==
    IF IsSome(b.api_key) /\ Trim(Unwrap(b.api_key)) = <<>>
    THEN Some("API key cannot be empty")
    ELSE IF /\ IsSome(b.base_url)
            /\ ~StartsWith(Unwrap(b.base_url), HttpScheme)
            /\ ~StartsWith(Unwrap(b.base_url), HttpsScheme)
    THEN Some("Base URL must start with http:// or https://")
    ELSE IF IsSome(b.timeout) /\ is_zero(Unwrap(b.timeout))
    THEN Some("Timeout must be greater than 0")
    ELSE IF IsSome(b.timeout) /\ DurationGt(Unwrap(b.timeout), from_secs(MAX_TIMEOUT_SECS))
    THEN Some("Timeout cannot exceed 300 seconds (5 minutes)")
    ELSE None

Ok(v) == [ok |-> TRUE, val |-> Some(v), err |-> None]
Err(e) == [ok |-> FALSE, val |-> None, err |-> Some(e)]

ValidationError(msg) == [variant |-> "Config", kind |-> "ValidationError", detail |-> msg]
UninitializedField(f) == [variant |-> "Config", kind |-> "UninitializedField", detail |-> f]
HttpError == [variant |-> "Http", kind |-> "Builder", detail |-> "transport"]

\* build() storing the trimmed key
build_Trimmed(b) ==
    LET v == validate_config(b)
    IN  IF IsSome(v) THEN Err(ValidationError(Unwrap(v)))
        ELSE IF ~IsSome(b.api_key) THEN Err(UninitializedField("api_key"))
        ELSE Ok([api_key  |-> Trim(Unwrap(b.api_key)),
                 base_url |-> IF IsSome(b.base_url) THEN Unwrap(b.base_url) ELSE default_base_url,
                 timeout  |-> IF IsSome(b.timeout) THEN Unwrap(b.timeout) ELSE default_timeout,
                 client   |-> IF IsSome(b.client) THEN Unwrap(b.client) ELSE None])

\* the generated build(): validate first, then take each field or its default;
\* a field with no default that was never set is an UninitializedField error
build(b) ==
    LET v == validate_config(b)
    IN  IF IsSome(v) THEN Err(ValidationError(Unwrap(v)))
        ELSE IF ~IsSome(b.api_key) THEN Err(UninitializedField("api_key"))
        ELSE Ok([api_key  |-> Unwrap(b.api_key),
                 base_url |-> IF IsSome(b.base_url) THEN Unwrap(b.base_url) ELSE default_base_url,
                 timeout  |-> IF IsSome(b.timeout) THEN Unwrap(b.timeout) ELSE default_timeout,
                 client   |-> IF IsSome(b.client) THEN Unwrap(b.client) ELSE None])

\* the accessors of NvisyConfig
api_key(c) == c.api_key
base_url(c) == c.base_url
timeout(c) == c.timeout
client(c) == c.client

-----------------------------------------------------------------------------
(* Formatting (core::fmt), as far as the Debug renderings use it. *)

Digits == <<"0","1","2","3","4","5","6","7","8","9">>

\* Display of an unsigned integer
RECURSIVE DecString(_)
DecString(n) ==
    IF n < 10 THEN <<Digits[n + 1]>> ELSE Append(DecString(n \div 10), Digits[(n % 10) + 1])

\* the fractional digits fmt_decimal emits without a precision: digits are
\* produced while the remaining fractional part is not zero
RECURSIVE FracDigits(_, _)
FracDigits(frac, divisor) ==
    IF frac = 0 \/ divisor = 0 THEN <<>>
    ELSE <<Digits[(frac \div divisor) + 1]>> \o FracDigits(frac % divisor, divisor \div 10)

fmt_decimal(int_part, frac, divisor, suffix) ==
    LET f == FracDigits(frac, divisor)
    IN  DecString(int_part) \o (IF f = <<>> THEN <<>> ELSE <<".">> \o f) \o suffix

\* impl Debug for Duration ("B5" is the micro sign)
duration_debug(d) ==
    IF d.secs > 0 THEN fmt_decimal(d.secs, d.nanos, NANOS_PER_SEC \div 10, <<"s">>)
    ELSE IF d.nanos >= 1000 * 1000
    THEN fmt_decimal(d.nanos \div (1000 * 1000), d.nanos % (1000 * 1000), 100 * 1000, <<"m","s">>)
    ELSE IF d.nanos >= 1000
    THEN fmt_decimal(d.nanos \div 1000, d.nanos % 1000, 100, <<"B5","s">>)
    ELSE fmt_decimal(d.nanos, 0, 1, <<"n","s">>)

\* char::escape_debug, on the characters of the model
escape_debug(c) ==
    IF c = "\"" THEN <<"\\", "\"">>
    ELSE IF c = "\\" THEN <<"\\", "\\">>
    ELSE IF c = "\n" THEN <<"\\", "n">>
    ELSE IF c = "\t" THEN <<"\\", "t">>
    ELSE <<c>>

\* impl Debug for str: the escaped characters between double quotes
str_debug(s) == <<"\"">> \o Concat([i \in 1..Len(s) |-> escape_debug(s[i])]) \o <<"\"">>

\* Formatter::debug_struct(name).field(..).field(..).field(..).finish()
debug_struct3(name, f1, v1, f2, v2, f3, v3) ==
    Concat(<<name, <<" ", "{", " ">>,
             f1, <<":", " ">>, v1, <<",", " ">>,
             f2, <<":", " ">>, v2, <<",", " ">>,
             f3, <<":", " ">>, v3, <<" ", "}">> >>)

-----------------------------------------------------------------------------
(* client/config.rs: masking and Debug. *)

Placeholder == <<"*","*","*","*">>

MaskPrefixLen == 4

\* str::is_char_boundary
is_char_boundary(s, n) == \E k \in 0..Len(s) : ByteLen(SubSeq(s, 1, k)) = n

\* &s[..n] where n is a character boundary: the characters of the first n bytes
byte_prefix(s, n) ==
    SubSeq(s, 1, CHOOSE k \in 0..Len(s) : ByteLen(SubSeq(s, 1, k)) = n)

Returned(v) == [panic |-> FALSE, val |-> v]
Panicked == [panic |-> TRUE, val |-> <<>>]

\* NvisyConfig::masked_api_key; slicing inside a character panics
masked_api_key(c) ==
    IF ByteLen(c.api_key) > MaskPrefixLen
    THEN IF is_char_boundary(c.api_key, MaskPrefixLen)
         THEN Returned(byte_prefix(c.api_key, MaskPrefixLen) \o Placeholder)
         ELSE Panicked
    ELSE Returned(Placeholder)

NameNvisyConfig == <<"N","v","i","s","y","C","o","n","f","i","g">>
NameNvisyClient == <<"N","v","i","s","y","C","l","i","e","n","t">>
FieldApiKey == <<"a","p","i","_","k","e","y">>
FieldBaseUrl == <<"b","a","s","e","_","u","r","l">>
FieldTimeout == <<"t","i","m","e","o","u","t">>

\* Debug for NvisyConfig as #[derive(Debug)] would write it: the key unmasked
config_debug_Raw(c) ==
    Returned(debug_struct3(NameNvisyConfig,
                           FieldApiKey, str_debug(c.api_key),
                           FieldBaseUrl, str_debug(c.base_url),
                           FieldTimeout, duration_debug(c.timeout)))

\* impl fmt::Debug for NvisyConfig
config_debug(c) ==
    LET m == masked_api_key(c)
    IN  IF m.panic THEN Panicked
        ELSE Returned(debug_struct3(NameNvisyConfig,
                                    FieldApiKey, str_debug(m.val),
                                    FieldBaseUrl, str_debug(c.base_url),
                                    FieldTimeout, duration_debug(c.timeout)))

-----------------------------------------------------------------------------
(* client/nvisy.rs: the client handle. *)

\* Client::builder().timeout(t).build(): a transport carrying the timeout
BuiltTransport(t) == [custom |-> FALSE, timeout |-> Some(t)]
\* a transport the caller built and injected with with_client
CustomTransport == [custom |-> TRUE, timeout |-> None]

\* new that builds its own transport whatever the configuration carries
new_AlwaysBuilds(c, transport_ok) ==
    IF transport_ok THEN Ok([config |-> c, client |-> BuiltTransport(timeout(c))])
    ELSE Err(HttpError)

\* NvisyClient::new: the inner state, or the transport's build error
new(c, transport_ok) ==
    IF IsSome(client(c)) THEN Ok([config |-> c, client |-> Unwrap(client(c))])
    ELSE IF transport_ok THEN Ok([config |-> c, client |-> BuiltTransport(timeout(c))])
    ELSE Err(HttpError)

\* NvisyClient::config
client_config(inner) == inner.config

\* impl fmt::Debug for NvisyClient
client_debug(inner) ==
    LET m == masked_api_key(inner.config)
    IN  IF m.panic THEN Panicked
        ELSE Returned(debug_struct3(NameNvisyClient,
                                    FieldApiKey, str_debug(m.val),
                                    FieldBaseUrl, str_debug(base_url(inner.config)),
                                    FieldTimeout, duration_debug(timeout(inner.config))))

\* clone that rebuilds the client from the key alone, as with_api_key would
clone_Rebuilt(hp, hd) ==
    [heap   |-> Append(hp, [hp[hd.inner] EXCEPT !.config.base_url = DEFAULT_BASE_URL,
                                                !.config.timeout = DEFAULT_TIMEOUT]),
     handle |-> [hd EXCEPT !.inner = Len(hp) + 1]]

\* clone that gives the copy an inner state of its own with a newly built transport
clone_OwnTransport(hp, hd) ==
    [heap   |-> Append(hp, [hp[hd.inner] EXCEPT !.client = BuiltTransport(DEFAULT_TIMEOUT)]),
     handle |-> [hd EXCEPT !.inner = Len(hp) + 1]]

\* Arc::clone on the handle: the new handle points at the same inner state
clone(hp, hd) == [heap |-> hp, handle |-> hd]

-----------------------------------------------------------------------------
(* url::Url as the client uses it: base URL parsing and path composition. *)

RECURSIVE trim_end_matches(_, _)
\* str::trim_end_matches(ch)
trim_end_matches(s, ch) ==
    IF s # <<>> /\ s[Len(s)] = ch THEN trim_end_matches(SubSeq(s, 1, Len(s) - 1), ch) ELSE s

UrlParseError == [variant |-> "UrlParse", kind |-> "EmptyHost", detail |-> "base_url"]

\* Url::parse on an http(s) string without query or fragment: the slashes after
\* the scheme are skipped, the host runs to the next "/", the rest is the path
url_parse(s) ==
    LET RECURSIVE SkipSlashes(_)
        SkipSlashes(t) == IF t # <<>> /\ Head(t) = "/" THEN SkipSlashes(Tail(t)) ELSE t
        RECURSIVE UpToSlash(_)
        UpToSlash(t) ==
            IF t = <<>> \/ Head(t) = "/" THEN <<>> ELSE <<Head(t)>> \o UpToSlash(Tail(t))
        Parsed(scheme, host, tail) ==
            IF scheme = <<>> \/ host = <<>> THEN Err(UrlParseError)
            ELSE Ok([origin |-> scheme \o host,
                     path |-> IF tail = <<>> THEN <<"/">> ELSE tail,
                     query |-> <<>>])
        AfterHost(scheme, rest, host) ==
            Parsed(scheme, host, SubSeq(rest, Len(host) + 1, Len(rest)))
        AfterScheme(scheme) ==
            LET AfterSlashes(rest) == AfterHost(scheme, rest, UpToSlash(rest))
            IN  AfterSlashes(SkipSlashes(SubSeq(s, Len(scheme) + 1, Len(s))))
    IN  AfterScheme(IF StartsWith(s, HttpsScheme) THEN HttpsScheme
                    ELSE IF StartsWith(s, HttpScheme) THEN HttpScheme ELSE <<>>)

\* parse_url that replaces the base URL's path by the operation's path
parse_url_PathReplaced(inner, path) ==
    LET Joined(u) ==
            IF ~u.ok THEN u
            ELSE Ok([Unwrap(u.val) EXCEPT !.path = path])
    IN  Joined(url_parse(base_url(inner.config)))

\* NvisyClient::parse_url
parse_url(inner, path) ==
    LET Joined(u) ==
            IF ~u.ok THEN u
            ELSE Ok([Unwrap(u.val) EXCEPT !.path = trim_end_matches(@, "/") \o path])
    IN  Joined(url_parse(base_url(inner.config)))

\* NvisyClient::build_url
build_url(inner, path, params) ==
    LET Extended(u) ==
            IF ~u.ok THEN u
            ELSE IF params # <<>> THEN Ok([Unwrap(u.val) EXCEPT !.query = @ \o params]) ELSE u
    IN  Extended(parse_url(inner, path))

-----------------------------------------------------------------------------
(* serde_json serialization of the request types. *)

JStr(s) == [t |-> "str", v |-> <<s>>]
JNull == [t |-> "null", v |-> <<>>]
JList(items) == [t |-> "list", v |-> items]

\* one field of a request type: its Rust name, its key in the body (after
\* rename_all), and whether it carries skip_serializing_if = "Option::is_none"
Field(f, k, skip) == [field |-> f, key |-> k, skip_none |-> skip]

UpdateWorkspace ==
    <<Field("display_name", "displayName", TRUE), Field("description", "description", TRUE),
      Field("tags", "tags", TRUE), Field("enable_comments", "enableComments", TRUE),
      Field("require_approval", "requireApproval", TRUE)>>

UpdateNotificationSettings ==
    <<Field("email_enabled", "emailEnabled", TRUE), Field("in_app_enabled", "inAppEnabled", TRUE),
      Field("events", "events", TRUE)>>

UpdateWebhook ==
    <<Field("display_name", "displayName", TRUE), Field("description", "description", TRUE),
      Field("url", "url", TRUE), Field("events", "events", TRUE),
      Field("headers", "headers", TRUE), Field("status", "status", TRUE)>>

UpdateIntegration ==
    <<Field("integration_name", "integrationName", TRUE), Field("description", "description", TRUE),
      Field("integration_type", "integrationType", TRUE), Field("credentials", "credentials", TRUE),
      Field("is_active", "isActive", TRUE), Field("metadata", "metadata", TRUE)>>

UpdateDocumentRequest ==
    <<Field("name", "name", TRUE), Field("workspace_id", "workspace_id", TRUE)>>

CheckHealth ==
    <<Field("timeout", "timeout", TRUE), Field("use_cache", "useCache", TRUE)>>

\* the bodies of the batch operations: the struct literals of service/files.rs,
\* whose fields are always serialized
DeleteFiles == <<Field("file_ids", "fileIds", FALSE)>>
DownloadFiles == <<Field("file_ids", "fileIds", FALSE), Field("format", "format", FALSE)>>

\* a request type whose fields the service code passes through as one value
Payload == <<Field("value", "value", FALSE)>>

Schema(type) ==
    CASE type = "UpdateWorkspace" -> UpdateWorkspace
      [] type = "UpdateNotificationSettings" -> UpdateNotificationSettings
      [] type = "UpdateWebhook" -> UpdateWebhook
      [] type = "UpdateIntegration" -> UpdateIntegration
      [] type = "UpdateDocumentRequest" -> UpdateDocumentRequest
      [] type = "CheckHealth" -> CheckHealth
      [] type = "DeleteFiles" -> DeleteFiles
      [] type = "DownloadFiles" -> DownloadFiles
      [] OTHER -> Payload

FieldNames(schema) == {schema[i].field : i \in 1..Len(schema)}

\* #[derive(Serialize)]: the key and value of every field that is not skipped
to_json_KeepNone(data) ==
    LET schema == Schema(data.type)
    IN  {<<schema[i].key,
           IF IsSome(data.fields[schema[i].field]) THEN Unwrap(data.fields[schema[i].field])
           ELSE JNull>> : i \in 1..Len(schema)}

\* #[derive(Serialize)]: the key and value of every field that is not skipped
to_json(data) ==
    LET schema == Schema(data.type)
        kept == {i \in 1..Len(schema) :
                    ~(schema[i].skip_none /\ ~IsSome(data.fields[schema[i].field]))}
    IN  {<<schema[i].key,
           IF IsSome(data.fields[schema[i].field]) THEN Unwrap(data.fields[schema[i].field])
           ELSE JNull>> : i \in kept}

-----------------------------------------------------------------------------
(* reqwest::RequestBuilder as the client drives it. *)

NoBody == [kind |-> "none", json |-> {}, parts |-> <<>>, raw |-> <<>>]

\* Client::request(method, url): a builder holding the request under construction;
\* error marks a builder whose send() fails before anything is sent
RequestBuilder(transport, method, url) ==
    [transport |-> transport, method |-> method, url |-> url, timeout |-> None,
     headers |-> <<>>, body |-> NoBody, error |-> FALSE]

\* RequestBuilder::header: a value with a line break is not a header value
header(rb, name, value) ==
    IF \E i \in 1..Len(value) : value[i] \in {"\n", "\r"}
    THEN [rb EXCEPT !.error = TRUE]
    ELSE [rb EXCEPT !.headers = Append(@, <<name, value>>)]

\* RequestBuilder::json: the serialized value as the body, and its content type
\* unless one was set
json(rb, data) ==
    LET typed == IF \E i \in 1..Len(rb.headers) : rb.headers[i][1] = "Content-Type" THEN rb
                 ELSE header(rb, "Content-Type", <<"a","p","p","l","i","c","a","t","i","o","n","/","j","s","o","n">>)
    IN  [typed EXCEPT !.body = [NoBody EXCEPT !.kind = "json", !.json = to_json(data)]]

\* RequestBuilder::multipart: the form as the body, and its content type
multipart(rb, form) ==
    [header(rb, "Content-Type", <<"m","u","l","t","i","p","a","r","t","/","f","o","r","m","-","d","a","t","a">>) EXCEPT
        !.body = [NoBody EXCEPT !.kind = "multipart", !.parts = form]]

\* RequestBuilder::body
body(rb, content) == [rb EXCEPT !.body = [NoBody EXCEPT !.kind = "raw", !.raw = content]]

\* RequestBuilder::query
query(rb, pairs) == [rb EXCEPT !.url.query = @ \o pairs]

\* format!("Bearer {}", api_key)
Bearer(key) == <<"B","e","a","r","e","r"," ">> \o key

\* request without the Authorization header
request_NoAuth(inner, method, url) ==
    [RequestBuilder(inner.client, method, url) EXCEPT !.timeout = Some(timeout(inner.config))]

\* request with the default timeout in place of the configured one
request_DefaultTimeout(inner, method, url) ==
    header([RequestBuilder(inner.client, method, url) EXCEPT !.timeout = Some(DEFAULT_TIMEOUT)],
           "Authorization", Bearer(api_key(inner.config)))

\* NvisyClient::request
request(inner, method, url) ==
    header([RequestBuilder(inner.client, method, url) EXCEPT
                !.timeout = Some(timeout(inner.config))],
           "Authorization", Bearer(api_key(inner.config)))

\* NvisyClient::send, up to the await
send(inner, method, path) ==
    LET Built(u) == IF u.ok THEN Ok(request(inner, method, Unwrap(u.val))) ELSE u
    IN  Built(parse_url(inner, path))

\* NvisyClient::send_json, up to the await
send_json(inner, method, path, data) ==
    LET Built(u) == IF u.ok THEN Ok(json(request(inner, method, Unwrap(u.val)), data)) ELSE u
    IN  Built(parse_url(inner, path))

\* NvisyClient::send_with_params, up to the await
send_with_params(inner, method, path, params) ==
    LET Built(u) == IF u.ok THEN Ok(request(inner, method, Unwrap(u.val))) ELSE u
    IN  Built(build_url(inner, path, params))

\* send_multipart that leaves the form out of the request
send_multipart_NoForm(inner, method, path, form) ==
    LET Built(u) == IF u.ok THEN Ok(request(inner, method, Unwrap(u.val))) ELSE u
    IN  Built(parse_url(inner, path))

\* NvisyClient::send_multipart, up to the await
send_multipart(inner, method, path, form) ==
    LET Built(u) == IF u.ok THEN Ok(multipart(request(inner, method, Unwrap(u.val)), form)) ELSE u
    IN  Built(parse_url(inner, path))

\* NvisyClient::request_builder
request_builder(inner, method, path) ==
    LET Built(u) == IF u.ok THEN Ok(request(inner, method, Unwrap(u.val))) ELSE u
    IN  Built(parse_url(inner, path))

-----------------------------------------------------------------------------
(* The service operations: the request each one builds and how it reads the
   response.  An operation's arguments are a record a: the id in its path, the
   request value, the list options, and the file name and bytes of an upload. *)

\* what an operation does with the response: the status check, then the reading
Plan(req, kind, type) == [req |-> req, kind |-> kind, type |-> type, check |-> "error_for_status"]
LegacyPlan(rb, kind, type) == [req |-> Ok(rb), kind |-> kind, type |-> type, check |-> "non_2xx"]

\* Client::get / post / put / delete on a string: a URL that does not parse makes
\* the builder fail at send()
IntoUrl(transport, method, s) ==
    LET Built(u) ==
            IF u.ok THEN RequestBuilder(transport, method, Unwrap(u.val))
            ELSE [RequestBuilder(transport, method, [origin |-> <<>>, path |-> <<>>, query |-> <<>>])
                     EXCEPT !.error = TRUE]
    IN  Built(url_parse(s))

\* options.unwrap_or_default(), then one query pair per option that is set, in
\* the order the service pushes them; formats gives one pair per format
QueryPairs(options, names) ==
    LET opts == IF IsSome(options) THEN Unwrap(options)
                ELSE [formats |-> None, search |-> None, after |-> None, limit |-> None]
        pairs(n) == CASE n = "formats" ->
                           IF IsSome(opts.formats)
                           THEN [i \in 1..Len(Unwrap(opts.formats)) |->
                                    <<"formats", Unwrap(opts.formats)[i]>>]
                           ELSE <<>>
                      [] n = "search" -> IF IsSome(opts.search) THEN <<<<"search", Unwrap(opts.search)>>>> ELSE <<>>
                      [] n = "after" -> IF IsSome(opts.after) THEN <<<<"after", Unwrap(opts.after)>>>> ELSE <<>>
                      [] n = "limit" -> IF IsSome(opts.limit) THEN <<<<"limit", DecString(Unwrap(opts.limit))>>>> ELSE <<>>
    IN  Concat([i \in 1..Len(names) |-> pairs(names[i])])

\* a list operation: request_builder(GET, path)?, then req.query per option
ListRequest(inner, path, options, names) ==
    LET Listed(rb) ==
            IF rb.ok THEN Ok(query(Unwrap(rb.val), QueryPairs(options, names))) ELSE rb
    IN  Listed(request_builder(inner, "GET", path))

\* impl WorkspacesService for NvisyClient
workspaces(inner, op, a) ==
    LET one == <<"/","w","o","r","k","s","p","a","c","e","s","/">> \o a.id \o <<"/">>
        notifications == <<"/","w","o","r","k","s","p","a","c","e","s","/">> \o a.id \o <<"/","n","o","t","i","f","i","c","a","t","i","o","n","s">>
    IN  CASE op = "list_workspaces" ->
               Plan(send_with_params(inner, "GET", <<"/","w","o","r","k","s","p","a","c","e","s","/">>,
                                     QueryPairs(a.opts, <<"after", "limit">>)),
                    "json", "WorkspacesPage")
          [] op = "get_workspace" -> Plan(send(inner, "GET", one), "json", "Workspace")
          [] op = "create_workspace" ->
               Plan(send_json(inner, "POST", <<"/","w","o","r","k","s","p","a","c","e","s","/">>, a.data), "json", "Workspace")
          [] op = "update_workspace" ->
               Plan(send_json(inner, "PATCH", one, a.data), "json", "Workspace")
          [] op = "delete_workspace" -> Plan(send(inner, "DELETE", one), "unit", "()")
          [] op = "get_workspace_notifications" ->
               Plan(send(inner, "GET", notifications), "json", "NotificationSettings")
          [] op = "update_workspace_notifications" ->
               Plan(send_json(inner, "PATCH", notifications, a.data),
                    "json", "NotificationSettings")

\* DownloadFiles { file_ids, format } with the ids in reverse order
download_files_body_Reversed(file_ids, format) ==
    [type |-> "DownloadFiles",
     fields |-> [file_ids |-> Some(JList([i \in 1..Len(file_ids) |-> file_ids[Len(file_ids) + 1 - i]])),
                 format |-> Some(JStr(format))]]

\* let body = DownloadFiles { file_ids, format }
download_files_body(file_ids, format) ==
    [type |-> "DownloadFiles",
     fields |-> [file_ids |-> Some(JList(file_ids)), format |-> Some(JStr(format))]]

\* impl FilesService for NvisyClient
files(inner, op, a) ==
    LET in_workspace == <<"/","w","o","r","k","s","p","a","c","e","s","/">> \o a.id \o <<"/","f","i","l","e","s","/">>
        one == <<"/","f","i","l","e","s","/">> \o a.id
        batch == <<"/","w","o","r","k","s","p","a","c","e","s","/">> \o a.id \o <<"/","f","i","l","e","s","/","b","a","t","c","h">>
        file_part == [name |-> "file", file_name |-> Some(a.file_name), bytes |-> a.file_data]
    IN  CASE op = "list_files" ->
               Plan(ListRequest(inner, in_workspace, a.opts,
                                <<"formats", "search", "after", "limit">>),
                    "json", "FilesPage")
          [] op = "get_file" -> Plan(send(inner, "GET", one), "json", "File")
          [] op = "update_file" -> Plan(send_json(inner, "PATCH", one, a.data), "json", "File")
          [] op = "delete_file" -> Plan(send(inner, "DELETE", one), "unit", "()")
          [] op = "download_file" ->
               Plan(send(inner, "GET", one \o <<"/","c","o","n","t","e","n","t">>), "bytes", "Vec<u8>")
          [] op = "upload_file" ->
               Plan(send_multipart(inner, "POST", in_workspace, <<file_part>>),
                    "first", "File")
          [] op = "delete_files_batch" ->
               Plan(send_json(inner, "DELETE", batch,
                              [type |-> "DeleteFiles",
                               fields |-> [file_ids |-> Some(JList(a.file_ids))]]),
                    "unit", "()")
          [] op = "download_files_batch" ->
               Plan(send_json(inner, "GET", batch, download_files_body(a.file_ids, a.format)),
                    "bytes", "Vec<u8>")

\* impl IntegrationsService for NvisyClient
integrations(inner, op, a) ==
    LET in_workspace == <<"/","w","o","r","k","s","p","a","c","e","s","/">> \o a.id \o <<"/","i","n","t","e","g","r","a","t","i","o","n","s","/">>
        one == <<"/","i","n","t","e","g","r","a","t","i","o","n","s","/">> \o a.id \o <<"/">>
    IN  CASE op = "list_integrations" ->
               Plan(ListRequest(inner, in_workspace, a.opts, <<"after", "limit">>),
                    "json", "IntegrationsPage")
          [] op = "get_integration" -> Plan(send(inner, "GET", one), "json", "Integration")
          [] op = "create_integration" ->
               Plan(send_json(inner, "POST", in_workspace, a.data), "json", "Integration")
          [] op = "update_integration" ->
               Plan(send_json(inner, "PATCH", one, a.data), "json", "Integration")
          [] op = "delete_integration" -> Plan(send(inner, "DELETE", one), "unit", "()")
          [] op = "sync_integration" ->
               Plan(send(inner, "POST", <<"/","i","n","t","e","g","r","a","t","i","o","n","s","/">> \o a.id \o <<"/","s","y","n","c">>),
                    "json", "Integration")

\* impl WebhooksService for NvisyClient
webhooks(inner, op, a) ==
    LET in_workspace == <<"/","w","o","r","k","s","p","a","c","e","s","/">> \o a.id \o <<"/","w","e","b","h","o","o","k","s","/">>
        one == <<"/","w","e","b","h","o","o","k","s","/">> \o a.id \o <<"/">>
        test == <<"/","w","e","b","h","o","o","k","s","/">> \o a.id \o <<"/","t","e","s","t">>
    IN  CASE op = "list_webhooks" ->
               Plan(ListRequest(inner, in_workspace, a.opts, <<"after", "limit">>),
                    "json", "WebhooksPage")
          [] op = "get_webhook" -> Plan(send(inner, "GET", one), "json", "Webhook")
          [] op = "create_webhook" ->
               Plan(send_json(inner, "POST", in_workspace, a.data), "json", "Webhook")
          [] op = "update_webhook" ->
               Plan(send_json(inner, "PATCH", one, a.data), "json", "Webhook")
          [] op = "delete_webhook" -> Plan(send(inner, "DELETE", one), "unit", "()")
          [] op = "test_webhook" ->
               Plan(IF IsSome(a.request) THEN send_json(inner, "POST", test, Unwrap(a.request))
                    ELSE send(inner, "POST", test),
                    "json", "WebhookResult")

\* health that sends the GET whatever the options
health_AlwaysGet(inner, op, a) ==
    Plan(send(inner, "GET", <<"/","h","e","a","l","t","h","/">>), "json", "MonitorStatus")

\* impl HealthService for NvisyClient
health(inner, op, a) ==
    Plan(IF IsSome(a.request) THEN send_json(inner, "POST", <<"/","h","e","a","l","t","h","/">>, Unwrap(a.request))
         ELSE send(inner, "GET", <<"/","h","e","a","l","t","h","/">>),
         "json", "MonitorStatus")

\* the request helpers of the earlier client that DocumentService calls (get, post,
\* put, delete_req): base URL + path, the bearer header and the JSON content headers
legacy_request(inner, method, path) ==
    LET rb == IntoUrl(inner.client, method, base_url(inner.config) \o path)
    IN  header(header(header(rb, "Authorization", Bearer(api_key(inner.config))),
                      "Content-Type", <<"a","p","p","l","i","c","a","t","i","o","n","/","j","s","o","n">>),
               "Accept", <<"a","p","p","l","i","c","a","t","i","o","n","/","j","s","o","n">>)

\* Error::Io(std::io::Error) by the kind of the I/O error
Io(kind) == [variant |-> "Io", kind |-> kind, detail |-> "std::io"]

\* tokio::fs::read of a path of the local disk d: the content of the file, or the
\* error for a file that is missing or may not be opened
fs_read(d, path) ==
    IF d[path].access = "denied" THEN Err(Io("PermissionDenied"))
    ELSE IF d[path].content = None THEN Err(Io("NotFound"))
    ELSE Ok(Unwrap(d[path].content))

\* DocumentService::upload_bytes
upload_bytes(inner, a) ==
    LET put == IntoUrl(inner.client, "PUT",
                       base_url(inner.config) \o <<"/","d","o","c","u","m","e","n","t","s","/">> \o a.id
                           \o <<"/","c","o","n","t","e","n","t">>)
    IN  LegacyPlan(body(header(header(put, "Authorization",
                                      Bearer(api_key(inner.config))),
                               "Content-Type", <<"a","p","p","l","i","c","a","t","i","o","n","/","o","c","t","e","t","-","s","t","r","e","a","m">>),
                        a.file_data),
                   "json", "Document")

\* DocumentService::upload: the file at a.path of the local disk is read, and the ?
\* returns its error before upload_bytes is called
upload(inner, a) ==
    LET Read(content) ==
            IF content.ok THEN upload_bytes(inner, [a EXCEPT !.file_data = Unwrap(content.val)])
            ELSE [req |-> content, kind |-> "json", type |-> "Document", check |-> "non_2xx"]
    IN  Read(fs_read(disk, a.path))

\* impl DocumentService for NvisyClient; download is its download_bytes up to the
\* await of the request
documents(inner, op, a) ==
    LET one == <<"/","d","o","c","u","m","e","n","t","s","/">> \o a.id
    IN  CASE op = "get" -> LegacyPlan(legacy_request(inner, "GET", one), "json", "Document")
          [] op = "create" ->
               LegacyPlan(json(legacy_request(inner, "POST", <<"/","d","o","c","u","m","e","n","t","s">>), a.data),
                          "json", "Document")
          [] op = "update" ->
               LegacyPlan(json(legacy_request(inner, "PUT", one), a.data), "json", "Document")
          [] op = "delete" -> LegacyPlan(legacy_request(inner, "DELETE", one), "unit", "()")
          [] op = "upload" -> upload(inner, a)
          [] op = "upload_bytes" -> upload_bytes(inner, a)
          [] op \in {"download", "download_bytes"} ->
               LegacyPlan(legacy_request(inner, "GET", one \o <<"/","c","o","n","t","e","n","t">>),
                          "bytes", "Vec<u8>")

\* the operation c = [service, op, a] called on a client
plan(inner, c) ==
    CASE c.service = "workspaces" -> workspaces(inner, c.op, c.a)
      [] c.service = "files" -> files(inner, c.op, c.a)
      [] c.service = "integrations" -> integrations(inner, c.op, c.a)
      [] c.service = "webhooks" -> webhooks(inner, c.op, c.a)
      [] c.service = "health" -> health(inner, c.op, c.a)
      [] c.service = "documents" -> documents(inner, c.op, c.a)

-----------------------------------------------------------------------------
(* Responses and what an operation returns for them. *)

\* a value an operation returns: a record of the API, the bytes of a download, or ();
\* items holds the bytes, the records of a list, or the deserialized record of an upload
Value(type, id, items) == [type |-> type, id |-> id, items |-> items]

\* Error::Http(reqwest::Error) by the kind of the reqwest error: "Request" (the
\* transport failed), "Builder", "Status", "Decode", "Body"
Http(kind) == [variant |-> "Http", kind |-> kind, detail |-> "reqwest"]
ApiError == [variant |-> "Api", kind |-> "Api", detail |-> "upload returned no files"]

\* Response::error_for_status: an error for a client or server error status
error_for_status(response) ==
    IF response.status >= 400 /\ response.status <= 599 THEN Err(Http("Status"))
    ELSE Ok(response)

\* the check of the earlier client's send helpers: an error for any non-2xx status
non_2xx(response) ==
    IF response.status >= 200 /\ response.status <= 299 THEN Ok(response)
    ELSE Err(Http("Status"))

\* Response::json::<T>: the body read to its end and deserialized as T
response_json(response, type) ==
    LET b == response.body
    IN  IF b.tag = "broken" THEN Err(Http("Body"))
        ELSE IF type = "Vec<File>"
        THEN IF b.tag = "array" /\ \A i \in 1..Len(b.items) : b.items[i].type = "File"
             THEN Ok(Value("Vec<File>", 0, b.items)) ELSE Err(Http("Decode"))
        ELSE IF b.tag = "object" /\ b.type = type
        THEN Ok(Value(type, b.id, <<>>)) ELSE Err(Http("Decode"))

\* Response::bytes that loses the last byte of the body
response_bytes_Truncated(response) ==
    IF response.body.tag = "broken" THEN Err(Http("Body"))
    ELSE Ok(Value("Vec<u8>", 0, SubSeq(response.body.raw, 1, Len(response.body.raw) - 1)))

\* Response::bytes: the body read to its end
response_bytes(response) ==
    IF response.body.tag = "broken" THEN Err(Http("Body"))
    ELSE Ok(Value("Vec<u8>", 0, response.body.raw))

\* upload_file returning a default record when the server returned none
first_file_Placeholder(records) ==
    IF records = <<>> THEN Ok(Value("File", 0, <<>>))
    ELSE Ok(Value("File", Head(records).id, <<Head(records)>>))

\* upload_file: files.into_iter().next().ok_or_else(|| Error::Api(..))
first_file(records) ==
    IF records = <<>> THEN Err(ApiError)
    ELSE Ok(Value("File", Head(records).id, <<Head(records)>>))

\* the operation after its request was sent: sent is the transport's result, the
\* response or the error; every ? returns the error to the caller
finish(p, sent) ==
    IF ~sent.ok THEN sent
    ELSE LET checked == IF p.check = "non_2xx" THEN non_2xx(Unwrap(sent.val))
                        ELSE error_for_status(Unwrap(sent.val))
             parsed == response_json(Unwrap(sent.val), "Vec<File>")
         IN  IF ~checked.ok THEN checked
             ELSE CASE p.kind = "unit" -> Ok(Value("()", 0, <<>>))
                    [] p.kind = "json" -> response_json(Unwrap(sent.val), p.type)
                    [] p.kind = "bytes" -> response_bytes(Unwrap(sent.val))
                    [] p.kind = "first" ->
                         IF parsed.ok THEN first_file(Unwrap(parsed.val).items) ELSE parsed

\* tokio::fs::write of bytes to a path of the local disk d: the file is created or
\* truncated and the bytes written; it fails with the disk untouched when the file
\* may not be opened, and with the file left empty when the disk is full
fs_write(d, path, bytes) ==
    CASE d[path].access = "denied" -> [disk |-> d, res |-> Err(Io("PermissionDenied"))]
      [] d[path].access = "full" ->
           [disk |-> [d EXCEPT ![path].content = Some(<<>>)], res |-> Err(Io("StorageFull"))]
      [] OTHER ->
           [disk |-> [d EXCEPT ![path].content = Some(bytes)], res |-> Ok(Value("()", 0, <<>>))]

\* DocumentService::download that writes the body it received before the checks
download_WriteFirst(p, sent, path, d) ==
    LET Got(bytes) ==
            IF ~sent.ok \/ Unwrap(sent.val).body.tag = "broken" THEN [disk |-> d, res |-> bytes]
            ELSE LET Written(w) == [disk |-> w.disk, res |-> IF bytes.ok THEN w.res ELSE bytes]
                 IN  Written(fs_write(d, path, Unwrap(sent.val).body.raw))
    IN  Got(finish(p, sent))

\* DocumentService::download after its request was sent: the ? on download_bytes
\* returns its error, then the bytes are written to the path of the local disk d
download(p, sent, path, d) ==
    LET Got(bytes) ==
            IF ~bytes.ok THEN [disk |-> d, res |-> bytes]
            ELSE fs_write(d, path, Unwrap(bytes.val).items)
    IN  Got(finish(p, sent))

-----------------------------------------------------------------------------
(* model/document.rs: DocumentType and its file extensions. *)

DocumentTypes ==
    {"Docx", "Pdf", "Xlsx", "Pptx", "Svg", "Jpeg", "Png", "Json", "Xml", "Text", "Other"}

UpperCase == <<"A","B","C","D","E","F","G","H","I","J","K","L","M",
               "N","O","P","Q","R","S","T","U","V","W","X","Y","Z","C9">>
LowerCase == <<"a","b","c","d","e","f","g","h","i","j","k","l","m",
               "n","o","p","q","r","s","t","u","v","w","x","y","z","E9">>

\* str::to_lowercase: each uppercase letter ("C9" is the capital of "E9") becomes
\* its lowercase letter
to_lowercase(s) ==
    [i \in 1..Len(s) |->
        IF \E n \in 1..Len(UpperCase) : UpperCase[n] = s[i]
        THEN LowerCase[CHOOSE n \in 1..Len(UpperCase) : UpperCase[n] = s[i]]
        ELSE s[i]]

RECURSIVE trim_start_matches(_, _)
\* str::trim_start_matches(ch)
trim_start_matches(s, ch) ==
    IF s # <<>> /\ Head(s) = ch THEN trim_start_matches(Tail(s), ch) ELSE s

\* DocumentType::extension
extension(t) ==
    CASE t = "Docx" -> <<"d","o","c","x">>
      [] t = "Pdf" -> <<"p","d","f">>
      [] t = "Xlsx" -> <<"x","l","s","x">>
      [] t = "Pptx" -> <<"p","p","t","x">>
      [] t = "Svg" -> <<"s","v","g">>
      [] t = "Jpeg" -> <<"j","p","g">>
      [] t = "Png" -> <<"p","n","g">>
      [] t = "Json" -> <<"j","s","o","n">>
      [] t = "Xml" -> <<"x","m","l">>
      [] t = "Text" -> <<"t","x","t">>
      [] t = "Other" -> <<"b","i","n">>

\* from_extension that matches the extension as it is written
from_extension_CaseSensitive(ext) ==
    LET Matched(e) ==
            CASE e \in {<<"d","o","c","x">>, <<"d","o","c">>} -> "Docx"
              [] e = <<"p","d","f">> -> "Pdf"
              [] e \in {<<"x","l","s","x">>, <<"x","l","s">>} -> "Xlsx"
              [] e \in {<<"p","p","t","x">>, <<"p","p","t">>} -> "Pptx"
              [] e \in {<<"s","v","g">>, <<"s","v","g","z">>} -> "Svg"
              [] e \in {<<"j","p","g">>, <<"j","p","e","g">>} -> "Jpeg"
              [] e = <<"p","n","g">> -> "Png"
              [] e = <<"j","s","o","n">> -> "Json"
              [] e = <<"x","m","l">> -> "Xml"
              [] e \in {<<"t","x","t">>, <<"t","e","x","t">>} -> "Text"
              [] OTHER -> "Other"
    IN  Matched(trim_start_matches(ext, "."))

\* DocumentType::from_extension
from_extension(ext) ==
    LET Matched(e) ==
            CASE e \in {<<"d","o","c","x">>, <<"d","o","c">>} -> "Docx"
              [] e = <<"p","d","f">> -> "Pdf"
              [] e \in {<<"x","l","s","x">>, <<"x","l","s">>} -> "Xlsx"
              [] e \in {<<"p","p","t","x">>, <<"p","p","t">>} -> "Pptx"
              [] e \in {<<"s","v","g">>, <<"s","v","g","z">>} -> "Svg"
              [] e \in {<<"j","p","g">>, <<"j","p","e","g">>} -> "Jpeg"
              [] e = <<"p","n","g">> -> "Png"
              [] e = <<"j","s","o","n">> -> "Json"
              [] e = <<"x","m","l">> -> "Xml"
              [] e \in {<<"t","x","t">>, <<"t","e","x","t">>} -> "Text"
              [] OTHER -> "Other"
    IN  Matched(trim_start_matches(to_lowercase(ext), "."))

-----------------------------------------------------------------------------
(* u32 arithmetic on two 16-bit limbs, and model/mod.rs: pagination. *)

LimbBase == 256 * 256

U32(h, l) == [hi |-> h, lo |-> l]

u32_lt(a, b) == a.hi < b.hi \/ (a.hi = b.hi /\ a.lo < b.lo)

\* u32::overflowing_add: the wrapped sum and whether it overflowed
overflowing_add(a, b) ==
    LET l == a.lo + b.lo
        h == a.hi + b.hi + (l \div LimbBase)
    IN  [val |-> U32(h % LimbBase, l % LimbBase), overflow |-> h >= LimbBase]

\* the + operator on u32: a panic with overflow checks, the wrapped sum without
u32_add(a, b, profile) ==
    LET r == overflowing_add(a, b)
    IN  IF r.overflow /\ profile = "debug" THEN Panicked ELSE Returned(r.val)

\* u32::saturating_sub(1)
saturating_sub_one(a) ==
    IF a.lo > 0 THEN U32(a.hi, a.lo - 1)
    ELSE IF a.hi > 0 THEN U32(a.hi - 1, LimbBase - 1)
    ELSE U32(0, 0)

\* a 32-bit value times a factor below 256: the wrapped product and whether it overflowed
mul_small(a, d) ==
    LET Carried(l) ==
            LET Limbs(h) == [val |-> U32(h % LimbBase, l % LimbBase), overflow |-> h >= LimbBase]
            IN  Limbs(a.hi * d + (l \div LimbBase))
    IN  Carried(a.lo * d)

RECURSIVE overflowing_mul(_, _)
\* u32::overflowing_mul: the wrapped product and whether it overflowed, by long
\* multiplication over the bytes of b: a * b = a * (b mod 256) + (256 * a) * (b div 256)
overflowing_mul(a, b) ==
    IF b = U32(0, 0) THEN [val |-> U32(0, 0), overflow |-> FALSE]
    ELSE LET Stepped(low, shifted, high) ==
                 LET Summed(rest) ==
                         LET Total(sum) ==
                                 [val |-> sum.val,
                                  overflow |-> \/ sum.overflow
                                               \/ low.overflow
                                               \/ rest.overflow
                                               \/ shifted.overflow /\ high # U32(0, 0)]
                         IN  Total(overflowing_add(rest.val, low.val))
                 IN  Summed(overflowing_mul(shifted.val, high))
         IN  Stepped(mul_small(a, b.lo % 256), mul_small(a, 256),
                     U32(b.hi \div 256, (b.lo \div 256) + (b.hi % 256) * 256))

\* the * operator on u32: a panic with overflow checks, the wrapped product without
u32_mul(a, b, profile) ==
    LET Checked(r) == IF r.overflow /\ profile = "debug" THEN Panicked ELSE Returned(r.val)
    IN  Checked(overflowing_mul(a, b))

\* Pagination::page
page(p, per_page, profile) ==
    LET Paged(product) ==
            IF product.panic THEN Panicked
            ELSE Returned([offset |-> Some(product.val), limit |-> Some(per_page)])
    IN  Paged(u32_mul(saturating_sub_one(p), per_page, profile))

\* PaginatedResponse::has_more
has_more(r, profile) ==
    LET sum == u32_add(r.offset, r.limit, profile)
    IN  IF sum.panic THEN Panicked ELSE Returned(u32_lt(sum.val, r.total))

\* PaginatedResponse::next_page
next_page(r, profile) ==
    LET more == has_more(r, profile)
        sum == u32_add(r.offset, r.limit, profile)
    IN  IF more.panic THEN Panicked
        ELSE IF more.val
        THEN IF sum.panic THEN Panicked
             ELSE Returned(Some([offset |-> Some(sum.val), limit |-> Some(r.limit)]))
        ELSE Returned(None)

\* the 32-bit values near both ends of the range
SmallU32 == {U32(0, l) : l \in 0..MaxSmall}
LargeU32 == {U32(LimbBase - 1, LimbBase - 1 - l) : l \in 0..MaxSmall}
SampleU32 == SmallU32 \cup LargeU32 \cup {U32(0, LimbBase - 1), U32(1, 0)}

-----------------------------------------------------------------------------
(* Inputs. *)

Alphabet == {"a", "*", " ", "E9"}

Keys == StringsUpTo(Alphabet, MaxKeyLen)
\* credentials for masking: whitespace plays no part in it
SecretAlphabet == {"a", "*", "E9"}
Secrets == StringsUpTo(SecretAlphabet, MaxSecretLen)

UrlHttp == <<"h","t","t","p",":","/","/","h">>
UrlHttps == <<"h","t","t","p","s",":","/","/","h","/">>
UrlFtp == <<"f","t","p",":","/","/","h">>
UrlUpper == <<"H","T","T","P",":","/","/","h">>
UrlOneSlash == <<"h","t","t","p",":","/","h">>
UrlLeadingSpace == <<" ","h","t","t","p",":","/","/","h">>

BaseUrls == {UrlHttp, UrlHttps, UrlFtp, UrlUpper, UrlOneSlash, UrlLeadingSpace, <<>>}

Timeouts ==
    {Duration(0, 0), Duration(0, 1), from_secs(60), Duration(299, NANOS_PER_SEC - 1),
     from_secs(MAX_TIMEOUT_SECS), Duration(MAX_TIMEOUT_SECS, 1), from_secs(400)}

MaskUrls == {UrlHttp}
MaskTimeoutSecs == {45}

TimeoutSecs == {0, 45, MAX_TIMEOUT_SECS, MAX_TIMEOUT_SECS + 1}

NoOut == [op |-> "none", res |-> Returned(<<>>)]

\* the extensions given to from_extension: the names the match knows and some it
\* does not, in lower case, in upper case and capitalised, behind up to MaxSmall dots
ExtensionNames ==
    {<<"d","o","c","x">>, <<"d","o","c">>, <<"p","d","f">>, <<"x","l","s","x">>, <<"x","l","s">>, <<"p","p","t","x">>, <<"p","p","t">>, <<"s","v","g">>, <<"s","v","g","z">>, <<"j","p","g">>,
     <<"j","p","e","g">>, <<"p","n","g">>, <<"j","s","o","n">>, <<"x","m","l">>, <<"t","x","t">>, <<"t","e","x","t">>, <<"b","i","n">>, <<"e","x","e">>, <<"p","d">>, <<"p","d","f","x">>,
     <<"p","d","f",".">>, <<"p",".","d","f">>, <<"p", "d", "f", "E9">>, <<>>}

Extensions ==
    LET Upper(s) == [i \in 1..Len(s) |->
                        IF \E n \in 1..Len(LowerCase) : LowerCase[n] = s[i]
                        THEN UpperCase[CHOOSE n \in 1..Len(LowerCase) : LowerCase[n] = s[i]]
                        ELSE s[i]]
        Cased(s) == IF s = <<>> THEN {s}
                    ELSE {s, Upper(s), Upper(<<Head(s)>>) \o Tail(s)}
        Dots(n) == [i \in 1..n |-> "."]
    IN  {Dots(n) \o c : n \in 0..MaxSmall, c \in UNION {Cased(s) : s \in ExtensionNames}}

(* Inputs of the service operations. *)

Struct(type, fields) == [type |-> type, fields |-> fields]

\* the arguments of an operation that takes none (format: an ArchiveFormat, which
\* has no default); OnId: the id "7" in the path
NoArgs ==
    [id |-> <<>>, data |-> Struct("()", [f \in {} |-> None]), opts |-> None,
     request |-> None, file_name |-> <<>>, file_data |-> <<>>,
     file_ids |-> <<>>, format |-> "Zip", path |-> ""]
OnId == [NoArgs EXCEPT !.id = <<"7">>]

\* every value of a request type whose fields are all optional
OptionalValues(type) ==
    {Struct(type, f) : f \in [{Schema(type)[i].field : i \in 1..Len(Schema(type))} ->
                                  {None, Some(JStr("v"))}]}

PayloadValue(type) == Struct(type, [value |-> Some(JStr("v"))])

ListOptions ==
    {None,
     Some([formats |-> None, search |-> None, after |-> None, limit |-> None]),
     Some([formats |-> None, search |-> None, after |-> Some(<<"c">>), limit |-> Some(5)]),
     Some([formats |-> Some(<<<<"p","d","f">>, <<"t","x","t">>>>), search |-> Some(<<"q">>),
           after |-> Some(<<"c">>), limit |-> Some(5)])}

Op(service, op, a) == [service |-> service, op |-> op, a |-> a]

\* the calls a caller makes: every operation, with every value of the update types
ServiceCalls ==
    {Op("workspaces", "list_workspaces", [NoArgs EXCEPT !.opts = o]) : o \in ListOptions}
    \cup {Op("workspaces", op, OnId) :
            op \in {"get_workspace", "delete_workspace", "get_workspace_notifications"}}
    \cup {Op("workspaces", "create_workspace",
             [NoArgs EXCEPT !.data = PayloadValue("CreateWorkspace")])}
    \cup {Op("workspaces", "update_workspace", [OnId EXCEPT !.data = d]) :
            d \in OptionalValues("UpdateWorkspace")}
    \cup {Op("workspaces", "update_workspace_notifications", [OnId EXCEPT !.data = d]) :
            d \in OptionalValues("UpdateNotificationSettings")}
    \cup {Op("files", "list_files", [OnId EXCEPT !.opts = o]) : o \in ListOptions}
    \cup {Op("files", op, OnId) : op \in {"get_file", "delete_file", "download_file"}}
    \cup {Op("files", "update_file", [OnId EXCEPT !.data = PayloadValue("UpdateFile")])}
    \cup {Op("files", "upload_file", [OnId EXCEPT !.file_name = <<"a",".","t","x","t">>, !.file_data = b]) :
            b \in {<<>>, <<1, 2, 3>>}}
    \cup {Op("files", "delete_files_batch", [OnId EXCEPT !.file_ids = ids]) :
            ids \in {<<>>, <<"8", "3">>}}
    \cup {Op("files", "download_files_batch", [OnId EXCEPT !.file_ids = ids, !.format = f]) :
            ids \in {<<>>, <<"8", "3">>}, f \in {"Zip", "TarGz"}}
    \cup {Op("integrations", "list_integrations", [OnId EXCEPT !.opts = o]) : o \in ListOptions}
    \cup {Op("integrations", op, OnId) :
            op \in {"get_integration", "delete_integration", "sync_integration"}}
    \cup {Op("integrations", "create_integration",
             [OnId EXCEPT !.data = PayloadValue("CreateIntegration")])}
    \cup {Op("integrations", "update_integration", [OnId EXCEPT !.data = d]) :
            d \in OptionalValues("UpdateIntegration")}
    \cup {Op("webhooks", "list_webhooks", [OnId EXCEPT !.opts = o]) : o \in ListOptions}
    \cup {Op("webhooks", op, OnId) : op \in {"get_webhook", "delete_webhook"}}
    \cup {Op("webhooks", "create_webhook", [OnId EXCEPT !.data = PayloadValue("CreateWebhook")])}
    \cup {Op("webhooks", "update_webhook", [OnId EXCEPT !.data = d]) :
            d \in OptionalValues("UpdateWebhook")}
    \cup {Op("webhooks", "test_webhook", [OnId EXCEPT !.request = r]) :
            r \in {None, Some(PayloadValue("TestWebhook"))}}
    \cup {Op("health", "health", [NoArgs EXCEPT !.request = r]) :
            r \in {None} \cup {Some(d) : d \in OptionalValues("CheckHealth")}}
    \cup {Op("documents", op, OnId) : op \in {"get", "delete", "download_bytes"}}
    \cup {Op("documents", "create",
             [NoArgs EXCEPT !.data = PayloadValue("CreateDocumentRequest")])}
    \cup {Op("documents", "update", [OnId EXCEPT !.data = d]) :
            d \in OptionalValues("UpdateDocumentRequest")}
    \cup {Op("documents", "upload_bytes", [OnId EXCEPT !.file_data = b]) :
            b \in {<<>>, <<1, 2, 3>>}}

\* a response of the server
Response(status, tag, type, id, items, raw) ==
    [status |-> status,
     body |-> [tag |-> tag, type |-> type, id |-> id, items |-> items, raw |-> raw]]

\* what the transport returns for a request whose reply the operation reads as
\* `type`: its failure, or a response with one of four statuses and a body that is a
\* JSON object (of that type or another), a JSON array of file records, text, or
\* cut short by the connection
Outcomes(type) ==
    LET File(i) == [type |-> "File", id |-> i]
    IN  {Err(Http("Request"))}
        \cup {Ok(Response(s, "object", t, 1, <<>>, <<>>)) :
                s \in {200, 304, 404, 500}, t \in {type, "Problem"}}
        \cup {Ok(Response(s, "array", "File", 0, r, <<>>)) :
                s \in {200, 304, 404, 500},
                r \in {<<>>, <<File(1)>>, <<File(2), File(1)>>}}
        \cup {Ok(Response(s, t, "bytes", 0, <<>>, <<1, 2, 3>>)) :
                s \in {200, 304, 404, 500}, t \in {"text", "broken"}}

\* the clients the service operations are called on
UrlWithPath == <<"h","t","t","p","s",":","/","/","h","/","v","1","/">>
UrlNoHost == <<"h","t","t","p","s",":","/","/">>

ServiceBuilders ==
    {[[with_api_key(DefaultBuilder, k) EXCEPT !.base_url = u] EXCEPT !.client = c] :
        k \in {<<"a">>, <<"E9", " ", "*">>, <<"a", "\n", "a">>},
        u \in {None, Some(UrlWithPath), Some(UrlNoHost)},
        c \in {None, Some(Some(CustomTransport))}}
    \cup {[[[with_api_key(DefaultBuilder, <<"a">>) EXCEPT !.base_url = u] EXCEPT !.client = c]
                EXCEPT !.timeout = Some(from_secs(MaxSmall))] :
            u \in {None, Some(UrlWithPath)},
            c \in {None, Some(Some(CustomTransport))}}

-----------------------------------------------------------------------------
(* The builder. *)

WithApiKey(K) ==
    /\ pc = "building"
    /\ \E k \in K : builder' = with_api_key(builder, k)
    /\ UNCHANGED <<pc, config, error, heap, handles, via, out, resp, prof, calls, server, disk>>

WithBaseUrl(U) ==
    /\ pc = "building"
    /\ \E u \in U : builder' = with_base_url(builder, u)
    /\ UNCHANGED <<pc, config, error, heap, handles, via, out, resp, prof, calls, server, disk>>

WithTimeout(T) ==
    /\ pc = "building"
    /\ \E d \in T : builder' = with_timeout(builder, d)
    /\ UNCHANGED <<pc, config, error, heap, handles, via, out, resp, prof, calls, server, disk>>

WithTimeoutSecs(S) ==
    /\ pc = "building"
    /\ \E secs \in S : builder' = with_timeout_secs(builder, secs)
    /\ UNCHANGED <<pc, config, error, heap, handles, via, out, resp, prof, calls, server, disk>>

WithClient ==
    /\ pc = "building"
    /\ builder' = with_client(builder, CustomTransport)
    /\ UNCHANGED <<pc, config, error, heap, handles, via, out, resp, prof, calls, server, disk>>

\* NvisyConfigBuilder::build
Build ==
    /\ pc = "building"
    /\ pc' = "done"
    /\ LET r == build(builder)
       IN  config' = r.val /\ error' = r.err
    /\ UNCHANGED <<builder, heap, handles, via, out, resp, prof, calls, server, disk>>

\* the state after NvisyClient::new(c) called through the constructor `route`
Construct(c, transport_ok, route) ==
    LET n == new(c, transport_ok)
    IN  IF n.ok
        THEN /\ heap' = <<Unwrap(n.val)>>
             /\ handles' = <<[inner |-> 1, root |-> 1]>>
             /\ via' = route
             /\ error' = None
        ELSE /\ error' = n.err
             /\ UNCHANGED <<heap, handles, via>>

\* NvisyConfigBuilder::build_client: build()?, then NvisyClient::new
BuildClient ==
    /\ pc = "building"
    /\ pc' = "done"
    /\ LET r == build(builder)
       IN  /\ config' = r.val
           /\ IF r.ok
              THEN \E transport_ok \in BOOLEAN : Construct(Unwrap(r.val), transport_ok, "build_client")
              ELSE error' = r.err /\ UNCHANGED <<heap, handles, via>>
    /\ UNCHANGED <<builder, out, resp, prof, calls, server, disk>>

\* NvisyClient::with_api_key(k): a fresh builder with only the key, build()?, new
WithApiKeyCtor(K) ==
    /\ pc = "building"
    /\ builder = DefaultBuilder
    /\ pc' = "done"
    /\ \E k \in K :
         LET b == with_api_key(DefaultBuilder, k)
             r == build(b)
         IN  /\ builder' = b
             /\ config' = r.val
             /\ IF r.ok
                THEN \E transport_ok \in BOOLEAN : Construct(Unwrap(r.val), transport_ok, "with_api_key")
                ELSE error' = r.err /\ UNCHANGED <<heap, handles, via>>
    /\ UNCHANGED <<out, resp, prof, calls, server, disk>>

\* NvisyClient::new(config)
NewClient ==
    /\ IsSome(config)
    /\ heap = <<>>
    /\ \E transport_ok \in BOOLEAN : Construct(Unwrap(config), transport_ok, "new")
    /\ UNCHANGED <<builder, pc, config, out, resp, prof, calls, server, disk>>

\* NvisyConfig::build_client(self): NvisyClient::new(self)
ConfigBuildClient ==
    /\ IsSome(config)
    /\ heap = <<>>
    /\ \E transport_ok \in BOOLEAN : Construct(Unwrap(config), transport_ok, "new")
    /\ UNCHANGED <<builder, pc, config, out, resp, prof, calls, server, disk>>

-----------------------------------------------------------------------------
(* Observations of a configuration and of a client handle. *)

MaskedApiKey ==
    /\ IsSome(config)
    /\ out' = [op |-> "masked_api_key", res |-> masked_api_key(Unwrap(config))]
    /\ UNCHANGED <<builder, pc, config, error, heap, handles, via, resp, prof, calls, server, disk>>

DebugConfig ==
    /\ IsSome(config)
    /\ out' = [op |-> "config_debug", res |-> config_debug(Unwrap(config))]
    /\ UNCHANGED <<builder, pc, config, error, heap, handles, via, resp, prof, calls, server, disk>>

DebugClient ==
    /\ \E h \in 1..Len(handles) :
         out' = [op |-> "client_debug", res |-> client_debug(heap[handles[h].inner])]
    /\ UNCHANGED <<builder, pc, config, error, heap, handles, via, resp, prof, calls, server, disk>>

\* client.config() read through a handle
ReadConfig ==
    /\ \E h \in 1..Len(handles) :
         out' = [op |-> "config", res |-> Returned(client_config(heap[handles[h].inner]))]
    /\ UNCHANGED <<builder, pc, config, error, heap, handles, via, resp, prof, calls, server, disk>>

\* #[derive(Clone)] on NvisyClient
Clone ==
    /\ Len(handles) < MaxHandles
    /\ \E h \in 1..Len(handles) :
         LET c == clone(heap, handles[h])
         IN  heap' = c.heap /\ handles' = Append(handles, c.handle)
    /\ UNCHANGED <<builder, pc, config, error, via, out, resp, prof, calls, server, disk>>

\* a handle goes out of scope
Drop ==
    /\ \E h \in 1..Len(handles) :
         handles' = SubSeq(handles, 1, h - 1) \o SubSeq(handles, h + 1, Len(handles))
    /\ UNCHANGED <<builder, pc, config, error, heap, via, out, resp, prof, calls, server, disk>>

-----------------------------------------------------------------------------
(* Service calls.  A call runs to its await on the network (the request is built
   and handed to the transport), and resumes when the response or the failure
   arrives. *)

\* a service operation is called through a handle: everything up to send().await
Call(C, n) ==
    /\ Len(calls) < n
    /\ \E h \in 1..Len(handles), c \in C :
         LET Started(p, unsent) ==
                 [inner |-> handles[h].inner,
                  c |-> c,
                  plan |-> [kind |-> p.kind, type |-> p.type, check |-> p.check],
                  sent |-> IF unsent THEN <<>> ELSE <<Unwrap(p.req.val)>>,
                  done |-> unsent,
                  response |-> None,
                  result |-> IF ~p.req.ok THEN Some(p.req)
                             ELSE IF unsent THEN Some(Err(Http("Builder"))) ELSE None]
             Planned(p) == Started(p, ~p.req.ok \/ Unwrap(p.req.val).error)
         IN  calls' = Append(calls, Planned(plan(heap[handles[h].inner], c)))
    /\ UNCHANGED <<builder, pc, config, error, heap, handles, via, out, resp, prof, server, disk>>

\* the transport answers a pending call, which runs to its return; with all
\* false only its failure and the JSON objects with status 200 and 500 are drawn
Complete(all) ==
    /\ \E i \in 1..Len(calls) :
         /\ ~calls[i].done
         /\ \E o \in {x \in Outcomes(calls[i].plan.type) :
                        all \/ ~x.ok \/ (/\ Unwrap(x.val).status \in {200, 500}
                                          /\ Unwrap(x.val).body.tag = "object")} :
              calls' = [calls EXCEPT ![i] = [@ EXCEPT !.done = TRUE,
                                                      !.response = Some(o),
                                                      !.result = Some(finish(calls[i].plan, o))]]
    /\ UNCHANGED <<builder, pc, config, error, heap, handles, via, out, resp, prof, server, disk>>

\* the caller takes the result of a finished call
Return ==
    /\ \E i \in 1..Len(calls) :
         /\ calls[i].done
         /\ calls' = SubSeq(calls, 1, i - 1) \o SubSeq(calls, i + 1, Len(calls))
    /\ UNCHANGED <<builder, pc, config, error, heap, handles, via, out, resp, prof, server, disk>>

\* the files of the local disk the path helpers are called on, and the disks: a file
\* is missing or holds bytes, and it may be opened, may not, or sits on a full disk
Paths == {"in.pdf", "out.pdf"}
Disks == [Paths -> [content : {None, Some(<<7>>)}, access : {"ok", "denied", "full"}]]

\* DocumentService::upload(id, path) up to the await of its request
PathUploads == {Op("documents", "upload", [OnId EXCEPT !.path = q]) : q \in Paths}
UploadPath(n) == Call(PathUploads, n)

\* DocumentService::download(id, path) up to the await of its request
PathDownloads == {Op("documents", "download", [OnId EXCEPT !.path = q]) : q \in Paths}
DownloadPath(n) == Call(PathDownloads, n)

\* the transport answers a pending upload or download, which runs to its return: a
\* download writes the file
Resume ==
    /\ \E i \in 1..Len(calls) :
         /\ ~calls[i].done
         /\ \E o \in Outcomes(calls[i].plan.type) :
              LET Resumed(r) ==
                      /\ calls' = [calls EXCEPT ![i] = [@ EXCEPT !.done = TRUE,
                                                                 !.response = Some(o),
                                                                 !.result = Some(r.res)]]
                      /\ disk' = r.disk
              IN  Resumed(IF calls[i].c.op = "download"
                          THEN download(calls[i].plan, o, calls[i].c.a.path, disk)
                          ELSE [disk |-> disk, res |-> finish(calls[i].plan, o)])
    /\ UNCHANGED <<builder, pc, config, error, heap, handles, via, out, resp, prof, server>>

\* a file record as the API returns it: its id and the size of its content
FileRecord(i, n) == [type |-> "File", id |-> i, size |-> n]

\* the stored files a GET of this path serves (the API under "/" or "/v1")
ServedFiles(path) ==
    {f \in 1..Len(server) :
        \E root \in {<<>>, <<"/","v","1">>} : path = root \o <<"/","f","i","l","e","s","/">> \o DecString(f) \o <<"/","c","o","n","t","e","n","t">>}

\* a caller uploads content under a file name; the contents are the empty one, every
\* sequence of up to MaxSmall of the bytes 0 and 255, and one of three distinct bytes
Contents == StringsUpTo({0, 255}, MaxSmall) \cup {<<3, 1, 2>>}
Uploads ==
    {Op("files", "upload_file", [OnId EXCEPT !.file_name = <<"a",".","t","x","t">>, !.file_data = b]) :
        b \in Contents}
Upload(n) == Call(Uploads, n)

\* a caller downloads a file by the id of a record that upload_file returned
DownloadUploaded(n) ==
    Call({Op("files", "download_file",
             [NoArgs EXCEPT !.id = DecString(Unwrap(Unwrap(calls[u].result).val).id)]) :
            u \in {i \in 1..Len(calls) : /\ calls[i].c.op = "upload_file"
                                         /\ IsSome(calls[i].result)
                                         /\ Unwrap(calls[i].result).ok}}, n)

\* the API stores the file part of a pending upload_file and answers with the
\* record of the stored file; the call runs to its return
Store ==
    /\ \E i \in 1..Len(calls) :
         /\ ~calls[i].done
         /\ calls[i].c.op = "upload_file"
         /\ LET Stored(content) ==
                    Ok(Response(200, "array", "File", 0,
                                <<FileRecord(Len(server) + 1, Len(content))>>, <<>>))
                Resumed(o) == [calls EXCEPT ![i] = [@ EXCEPT !.done = TRUE,
                                                            !.response = Some(o),
                                                            !.result = Some(finish(calls[i].plan, o))]]
            IN  /\ server' = Append(server, calls[i].sent[1].body.parts[1].bytes)
                /\ calls' = Resumed(Stored(calls[i].sent[1].body.parts[1].bytes))
    /\ UNCHANGED <<builder, pc, config, error, heap, handles, via, out, resp, prof, disk>>

\* the API answers a pending download_file with the stored content, or with 404
\* for a path that names no stored file; the call runs to its return
Fetch ==
    /\ \E i \in 1..Len(calls) :
         /\ ~calls[i].done
         /\ calls[i].c.op = "download_file"
         /\ LET Found(F) ==
                    IF F = {} THEN Ok(Response(404, "object", "Problem", 1, <<>>, <<>>))
                    ELSE Ok(Response(200, "text", "bytes", 0, <<>>, server[CHOOSE f \in F : TRUE]))
                Resumed(o) == [calls EXCEPT ![i] = [@ EXCEPT !.done = TRUE,
                                                            !.response = Some(o),
                                                            !.result = Some(finish(calls[i].plan, o))]]
            IN  calls' = Resumed(Found(ServedFiles(calls[i].sent[1].url.path)))
    /\ UNCHANGED <<builder, pc, config, error, heap, handles, via, out, resp, prof, server, disk>>

\* the transport fails on a pending call, which returns the error
Fail ==
    /\ \E i \in 1..Len(calls) :
         /\ ~calls[i].done
         /\ calls' = [calls EXCEPT ![i] = [@ EXCEPT !.done = TRUE,
                                                   !.response = Some(Err(Http("Request"))),
                                                   !.result = Some(finish(calls[i].plan, Err(Http("Request"))))]]
    /\ UNCHANGED <<builder, pc, config, error, heap, handles, via, out, resp, prof, server, disk>>

-----------------------------------------------------------------------------
(* Specifications. *)

\* no local file is involved
NoDisk == [p \in {} |-> None]

NoResp == [offset |-> U32(0, 0), limit |-> U32(0, 0), total |-> U32(0, 0)]

Init ==
    /\ builder = DefaultBuilder
    /\ pc = "building"
    /\ config = None
    /\ error = None
    /\ heap = <<>>
    /\ handles = <<>>
    /\ via = "none"
    /\ out = NoOut
    /\ resp = NoResp
    /\ prof = "release"
    /\ calls = <<>>
    /\ server = <<>>
    /\ disk = NoDisk

Next ==
    \/ WithApiKey(Keys)
    \/ WithBaseUrl(BaseUrls)
    \/ WithTimeout(Timeouts)
    \/ WithTimeoutSecs(TimeoutSecs)
    \/ WithClient
    \/ Build
    \/ BuildClient
    \/ WithApiKeyCtor(Keys)
    \/ NewClient
    \/ ConfigBuildClient
    \/ MaskedApiKey
    \/ DebugConfig
    \/ DebugClient
    \/ ReadConfig
    \/ Clone
    \/ Drop

Spec == Init /\ [][Next]_vars

\* a response arrives: any offset, limit and total
Receive ==
    /\ \E o \in SampleU32, l \in SampleU32, t \in SampleU32 :
         resp' = [offset |-> o, limit |-> l, total |-> t]
    /\ out' = NoOut
    /\ UNCHANGED <<builder, pc, config, error, heap, handles, via, prof, calls, server, disk>>

HasMore ==
    /\ out' = [op |-> "has_more", res |-> has_more(resp, prof)]
    /\ UNCHANGED <<builder, pc, config, error, heap, handles, via, resp, prof, calls, server, disk>>

NextPageCall ==
    /\ out' = [op |-> "next_page", res |-> next_page(resp, prof)]
    /\ UNCHANGED <<builder, pc, config, error, heap, handles, via, resp, prof, calls, server, disk>>

\* Pagination::page of a page number and a page size
Page ==
    /\ \E p \in SampleU32 \cup {U32(0, MaxSmall + 1)},
          n \in SampleU32 \cup {U32(LimbBase \div 2, 0)} :
         out' = [op |-> "page", arg |-> <<p, n>>, res |-> page(p, n, prof)]
    /\ UNCHANGED <<builder, pc, config, error, heap, handles, via, resp, prof, calls, server, disk>>

\* a caller pages through a listing: it asks the response at hand for next_page()
\* and, given Some(p), requests p; the response echoes p's offset and limit
FollowPage ==
    /\ out.op = "none" \/ (~out.res.panic /\ IsSome(out.res.val))
    /\ LET Followed(n) ==
               /\ out' = [op |-> "next_page", res |-> n]
               /\ resp' = IF ~n.panic /\ IsSome(n.val)
                          THEN [offset |-> Unwrap(Unwrap(n.val).offset),
                                limit |-> Unwrap(Unwrap(n.val).limit),
                                total |-> resp.total]
                          ELSE resp
       IN  Followed(next_page(resp, prof))
    /\ UNCHANGED <<builder, pc, config, error, heap, handles, via, prof, calls, server, disk>>

\* DocumentType::extension of a type
ExtensionOf ==
    /\ \E t \in DocumentTypes :
         out' = [op |-> "extension", arg |-> <<t>>, res |-> Returned(extension(t))]
    /\ UNCHANGED <<builder, pc, config, error, heap, handles, via, resp, prof, calls, server, disk>>

\* DocumentType::from_extension of the extension a type just gave
Detect ==
    /\ out.op = "extension"
    /\ out' = [op |-> "detect", arg |-> out.arg, res |-> Returned(from_extension(out.res.val))]
    /\ UNCHANGED <<builder, pc, config, error, heap, handles, via, resp, prof, calls, server, disk>>

\* DocumentType::from_extension of a caller's string
FromExtension ==
    /\ \E e \in Extensions :
         out' = [op |-> "from_extension", arg |-> e, res |-> Returned(from_extension(e))]
    /\ UNCHANGED <<builder, pc, config, error, heap, handles, via, resp, prof, calls, server, disk>>

\* the configuration and client with credentials of up to MaxSecretLen characters
NextMask ==
    \/ WithApiKey(Secrets)
    \/ WithBaseUrl(MaskUrls)
    \/ WithTimeoutSecs(MaskTimeoutSecs)
    \/ Build
    \/ NewClient
    \/ MaskedApiKey
    \/ DebugConfig
    \/ DebugClient

SpecMask == Init /\ [][NextMask]_vars

\* pagination, under either build profile
InitPage ==
    /\ builder = DefaultBuilder
    /\ pc = "building"
    /\ config = None
    /\ error = None
    /\ heap = <<>>
    /\ handles = <<>>
    /\ via = "none"
    /\ out = NoOut
    /\ resp = NoResp
    /\ prof \in {"debug", "release"}
    /\ calls = <<>>
    /\ server = <<>>
    /\ disk = NoDisk

NextPage ==
    \/ Receive
    \/ HasMore
    \/ NextPageCall

SpecPage == InitPage /\ [][NextPage]_vars

\* Pagination::page, under either build profile
SpecPageOf == InitPage /\ [][Page]_vars

\* the listings a caller pages through: a small limit against a small total, or a
\* limit of at least half the range against any sampled total
Listings ==
    {[offset |-> U32(0, 0), limit |-> U32(0, l), total |-> U32(0, t)] :
        l \in 1..(MaxSmall + 1), t \in 0..(4 * (MaxSmall + 1))}
    \cup {[offset |-> U32(0, 0), limit |-> l, total |-> t] :
            l \in {U32(LimbBase \div 2, 0), U32(LimbBase - 1, LimbBase - 1)}, t \in SampleU32}

\* paging from offset 0 until next_page() returns None, under either build profile
InitWalk ==
    /\ builder = DefaultBuilder
    /\ pc = "building"
    /\ config = None
    /\ error = None
    /\ heap = <<>>
    /\ handles = <<>>
    /\ via = "none"
    /\ out = NoOut
    /\ resp \in Listings
    /\ prof \in {"debug", "release"}
    /\ calls = <<>>
    /\ server = <<>>
    /\ disk = NoDisk

SpecWalk == InitWalk /\ [][FollowPage]_vars /\ WF_vars(FollowPage)

\* the document types and their extensions
NextDoc ==
    \/ ExtensionOf
    \/ Detect
    \/ FromExtension

SpecDoc == InitPage /\ [][NextDoc]_vars

\* a client built from b, before any call, on a machine whose local disk is d
ConstructedOn(b, d) ==
    /\ builder = b
    /\ pc = "done"
    /\ config = build(b).val
    /\ error = None
    /\ heap = <<Unwrap(new(Unwrap(build(b).val), TRUE).val)>>
    /\ handles = <<[inner |-> 1, root |-> 1]>>
    /\ via = "new"
    /\ out = NoOut
    /\ resp = NoResp
    /\ prof = "release"
    /\ calls = <<>>
    /\ server = <<>>
    /\ disk = d

Constructed(b) == ConstructedOn(b, NoDisk)

\* one caller making one service call after another on a client
InitService == \E b \in ServiceBuilders : Constructed(b)

NextService ==
    \/ Call(ServiceCalls, 1)
    \/ Complete(TRUE)
    \/ Return

SpecService == InitService /\ [][NextService]_vars

\* up to MaxCalls calls in flight at once through the clones of one client
InitConc ==
    \E b \in {x \in ServiceBuilders : Unwrap(x.api_key) = <<"a">> /\ x.base_url # Some(UrlNoHost)} :
        Constructed(b)

ConcurrentCalls == {c \in ServiceCalls : c.op \in {"get_workspace", "download_file", "health"}}

NextConc ==
    \/ Clone
    \/ Call(ConcurrentCalls, MaxCalls)
    \/ Complete(FALSE)
    \/ Return

SpecConc == InitConc /\ [][NextConc]_vars

\* uploads and downloads against an API that stores content faithfully
InitStore ==
    \E b \in {x \in ServiceBuilders : Unwrap(x.api_key) = <<"a">> /\ x.base_url # Some(UrlNoHost)} :
        Constructed(b)

NextStore ==
    \/ Upload(MaxStored)
    \/ DownloadUploaded(2 * MaxStored)
    \/ Store
    \/ Fetch
    \/ Fail

SpecStore == InitStore /\ [][NextStore]_vars

\* uploads from and downloads to files of the local disk
InitLocal == \E d \in Disks : ConstructedOn(with_api_key(DefaultBuilder, <<"a">>), d)

NextLocal ==
    \/ UploadPath(MaxCalls)
    \/ DownloadPath(MaxCalls)
    \/ Resume
    \/ Return

SpecLocal == InitLocal /\ [][NextLocal]_vars


-----------------------------------------------------------------------------
(* Properties. *)

\* the credential given to the builder, and what the claims say of the inputs
KeyGiven == IsSome(builder.api_key)
GivenKey == Unwrap(builder.api_key)
Blank(k) == \A i \in 1..Len(k) : k[i] = " "
CredentialOk == KeyGiven /\ ~Blank(GivenKey)
HasHttpScheme(u) == StartsWith(u, HttpScheme) \/ StartsWith(u, HttpsScheme)
UrlOk == ~IsSome(builder.base_url) \/ HasHttpScheme(Unwrap(builder.base_url))
WithinCeiling(d) ==
    /\ d.secs > 0 \/ d.nanos > 0
    /\ d.secs < MAX_TIMEOUT_SECS \/ (d.secs = MAX_TIMEOUT_SECS /\ d.nanos = 0)
TimeoutOk == ~IsSome(builder.timeout) \/ WithinCeiling(Unwrap(builder.timeout))

\* build() returned a configuration error and produced nothing
BuildFailed ==
    /\ pc = "done"
    /\ config = None
    /\ heap = <<>>
    /\ IsSome(error)
    /\ Unwrap(error).variant = "Config"

\* C1: build fails, producing no NvisyConfig, whenever the credential is missing,
\* empty or only whitespace, whatever the base URL and timeout are.
C1_BlankCredentialRejected ==
    (pc = "done" /\ (~KeyGiven \/ Blank(GivenKey))) => BuildFailed

C1_Witness ==
    /\ pc = "done"
    /\ KeyGiven /\ Len(GivenKey) = 2 /\ Blank(GivenKey)
    /\ IsSome(builder.base_url) /\ UrlOk
    /\ IsSome(builder.timeout) /\ TimeoutOk
    /\ BuildFailed

\* C2: build fails whenever a base URL was supplied that starts with neither
\* "http://" nor "https://"; with a valid credential the error is the base URL one.
C2_SchemelessUrlRejected ==
    (pc = "done" /\ IsSome(builder.base_url) /\ ~HasHttpScheme(Unwrap(builder.base_url)))
        => /\ BuildFailed
           /\ CredentialOk =>
                Unwrap(error).detail = "Base URL must start with http:// or https://"

C2_Witness ==
    /\ pc = "done"
    /\ builder.base_url = Some(UrlOneSlash)
    /\ CredentialOk
    /\ IsSome(builder.timeout) /\ TimeoutOk
    /\ BuildFailed

\* C3: a supplied timeout of zero or above 300 seconds makes build fail; every
\* timeout t with 0 < t <= 300 s is accepted, and kept, when the other fields are valid.
C3_TimeoutBounds ==
    (pc = "done" /\ IsSome(builder.timeout)) =>
        LET t == Unwrap(builder.timeout)
        IN  /\ (t.secs = 0 /\ t.nanos = 0) => BuildFailed
            /\ (t.secs > MAX_TIMEOUT_SECS \/ (t.secs = MAX_TIMEOUT_SECS /\ t.nanos > 0))
                   => BuildFailed
            /\ (WithinCeiling(t) /\ CredentialOk /\ UrlOk)
                   => IsSome(config) /\ timeout(Unwrap(config)) = t

C3_Witness ==
    /\ pc = "done"
    /\ builder.timeout = Some(from_secs(MAX_TIMEOUT_SECS))
    /\ IsSome(config)
    /\ timeout(Unwrap(config)) = from_secs(MAX_TIMEOUT_SECS)

\* C4: every input with a credential that is not blank, a base URL that is unset or
\* has an http(s) scheme and a timeout that is unset or within (0, 300 s] builds, and
\* the configuration returns the supplied values verbatim, defaults for the unset ones.
C4_AcceptedVerbatim ==
    (pc = "done" /\ CredentialOk /\ UrlOk /\ TimeoutOk) =>
        /\ IsSome(config)
        /\ api_key(Unwrap(config)) = GivenKey
        /\ base_url(Unwrap(config)) =
               IF IsSome(builder.base_url) THEN Unwrap(builder.base_url) ELSE DEFAULT_BASE_URL
        /\ timeout(Unwrap(config)) =
               IF IsSome(builder.timeout) THEN Unwrap(builder.timeout)
               ELSE from_secs(DEFAULT_TIMEOUT_SECS)

C4_Witness ==
    /\ pc = "done"
    /\ KeyGiven /\ GivenKey = <<" ", "a">>
    /\ ~IsSome(builder.base_url)
    /\ IsSome(builder.timeout)
    /\ IsSome(config)
    /\ api_key(Unwrap(config)) = <<" ", "a">>

\* C5: masked_api_key returns the first 4 characters followed by "****" for a
\* credential longer than 4 characters, and "****" alone for 4 or fewer characters.
C5_MaskByCharacters ==
    out.op = "masked_api_key" =>
        LET k == api_key(Unwrap(config))
        IN  out.res = IF Len(k) > MaskPrefixLen
                      THEN Returned(SubSeq(k, 1, MaskPrefixLen) \o Placeholder)
                      ELSE Returned(Placeholder)

\* C6: as the doc comment says, only a key shorter than 4 characters is rendered
\* as "****" alone: a key of exactly 4 (one-byte) characters is rendered as those
\* 4 characters followed by "****".
C6_FourCharactersShown ==
    (out.op = "masked_api_key"
        /\ Len(api_key(Unwrap(config))) = MaskPrefixLen
        /\ ByteLen(api_key(Unwrap(config))) = MaskPrefixLen)
        => out.res = Returned(api_key(Unwrap(config)) \o Placeholder)

\* the credential of the configuration a Debug rendering was made of
IsDebugOut == out.op \in {"config_debug", "client_debug"}
RenderedKey ==
    IF out.op = "client_debug" THEN api_key(heap[1].config) ELSE api_key(Unwrap(config))

\* C7, as stated: the credential is never a substring of the Debug rendering of
\* NvisyConfig or of NvisyClient.
C7_CredentialNeverInDebug ==
    (IsDebugOut /\ ~out.res.panic) => ~Contains(out.res.val, RenderedKey)

\* the value between the quotes of the api_key field of a Debug rendering
ApiKeyField(r, name) ==
    LET start == Len(name) + Len(<<" ", "{", " ">>) + Len(FieldApiKey) + Len(<<":", " ", "\"">>) + 1
        end == CHOOSE e \in start..Len(r) :
                   r[e] = "\"" /\ \A i \in start..(e - 1) : r[i] # "\""
    IN  SubSeq(r, start, end - 1)

AllStars(s) == \A i \in 1..Len(s) : s[i] = "*"

\* the credential is only '*', or only '*' (at most four) after its first 4 bytes
StarTail(k) ==
    IF ByteLen(k) <= MaskPrefixLen THEN AllStars(k)
    ELSE \E n \in 0..Len(k) :
            /\ ByteLen(SubSeq(k, 1, n)) = MaskPrefixLen
            /\ Len(k) - n <= Len(Placeholder)
            /\ AllStars(SubSeq(k, n + 1, Len(k)))

\* C7, amended: in every Debug rendering that is produced the api_key field holds
\* the masked key, and the credential is a substring of that field only when it
\* consists of '*' alone or of at most four '*' after its first 4 bytes.
C7_DebugShowsMaskedKey ==
    (IsDebugOut /\ ~out.res.panic) =>
        LET name == IF out.op = "client_debug" THEN NameNvisyClient ELSE NameNvisyConfig
            shown == ApiKeyField(out.res.val, name)
        IN  /\ StartsWith(out.res.val, name)
            /\ Len(shown) <= MaskPrefixLen + Len(Placeholder)
            /\ Contains(shown, RenderedKey) <=> StarTail(RenderedKey)

C7_Witness ==
    /\ out.op = "client_debug"
    /\ ~out.res.panic
    /\ RenderedKey = <<"a", "*", "a", "a", "a">>
    /\ ~Contains(out.res.val, RenderedKey)

\* C8: a client made from a credential alone, by NvisyClient::with_api_key(k) or by
\* builder().with_api_key(k).build_client(), has api_key k, the default base URL
\* and the default timeout of 30 seconds.
C8_DefaultsFromKeyAlone ==
    (/\ heap # <<>>
     /\ via \in {"with_api_key", "build_client"}
     /\ builder = with_api_key(DefaultBuilder, GivenKey))
        => /\ api_key(client_config(heap[1])) = GivenKey
           /\ base_url(client_config(heap[1])) = DEFAULT_BASE_URL
           /\ timeout(client_config(heap[1])) = from_secs(DEFAULT_TIMEOUT_SECS)

C8_Witness ==
    /\ via = "with_api_key"
    /\ heap # <<>>
    /\ Len(handles) = 1
    /\ api_key(client_config(heap[1])) = <<"a", "*">>

\* what config() returns through handle h
Accessors(h) ==
    LET c == client_config(heap[handles[h].inner])
    IN  <<api_key(c), base_url(c), timeout(c)>>

\* C9: every handle cloned from a client returns through config() the values the
\* original returns, which are those of the configuration the client was made from,
\* after any number of clones, drops and reads.
C9_ClonesShareConfig ==
    \A i \in 1..Len(handles) :
        /\ \A j \in 1..Len(handles) :
               handles[i].root = handles[j].root => Accessors(i) = Accessors(j)
        /\ Accessors(i) = <<api_key(Unwrap(config)), base_url(Unwrap(config)),
                            timeout(Unwrap(config))>>

C9_Witness ==
    /\ Len(handles) >= 2
    /\ out.op = "config"
    /\ IsSome(builder.base_url)
    /\ IsSome(builder.timeout)

\* the mathematical O + L < T, on the limbs
MathSumLt(o, l, t) ==
    LET lo == o.lo + l.lo
        hi == o.hi + l.hi + (lo \div LimbBase)
    IN  hi < t.hi \/ (hi = t.hi /\ (lo % LimbBase) < t.lo)

\* C10: has_more() is true exactly when the mathematical sum offset + limit is
\* less than total, for all 32-bit values: the addition neither fails nor wraps.
C10_HasMoreIsMathematical ==
    out.op = "has_more" =>
        /\ ~out.res.panic
        /\ out.res.val = MathSumLt(resp.offset, resp.limit, resp.total)

\* the mathematical O + L as a number too wide for 32 bits: its limbs and carry
MathSum(o, l) ==
    LET lo == o.lo + l.lo
        hi == o.hi + l.hi + (lo \div LimbBase)
    IN  [carry |-> hi \div LimbBase, val |-> U32(hi % LimbBase, lo % LimbBase)]

\* C11: for all 32-bit offset O, limit L and total T, when has_more() is true
\* next_page() returns a request with offset O + L (the mathematical sum) and
\* limit L, and when has_more() is false it returns None.
C11_NextPageAdvances ==
    out.op = "next_page" =>
        LET more == has_more(resp, prof)
        IN  /\ ~more.panic
            /\ ~out.res.panic
            /\ more.val =>
                  /\ MathSum(resp.offset, resp.limit).carry = 0
                  /\ out.res.val = Some([offset |-> Some(MathSum(resp.offset, resp.limit).val),
                                         limit |-> Some(resp.limit)])
            /\ ~more.val => out.res.val = None

\* the response a finished call received, when the transport delivered one
Answered(call) == call.done /\ IsSome(call.response) /\ Unwrap(call.response).ok
Answer(call) == Unwrap(Unwrap(call.response).val)
SuccessStatus(status) == status >= 200 /\ status <= 299

\* C12: upload_file, on a success-status response whose JSON body is an array R of
\* file records, fails with Error::Api when R is empty and otherwise returns the
\* first record R[0], never a placeholder or default record.
C12_UploadReturnsFirstOrApiError ==
    \A i \in 1..Len(calls) :
        LET call == calls[i]
            R == Answer(call).body.items
        IN  (/\ call.c.op = "upload_file"
             /\ Answered(call)
             /\ SuccessStatus(Answer(call).status)
             /\ Answer(call).body.tag = "array") =>
                IF R = <<>>
                THEN /\ ~Unwrap(call.result).ok
                     /\ Unwrap(Unwrap(call.result).err).variant = "Api"
                ELSE /\ Unwrap(call.result).ok
                     /\ Unwrap(Unwrap(call.result).val).type = "File"
                     /\ Unwrap(Unwrap(call.result).val).id = R[1].id

C12_Witness ==
    \E i \in 1..Len(calls) :
        /\ calls[i].c.op = "upload_file"
        /\ Answered(calls[i])
        /\ Answer(calls[i]).status = 200
        /\ Answer(calls[i]).body.tag = "array"
        /\ Answer(calls[i]).body.items = <<>>
        /\ Unwrap(calls[i].result) = Err(ApiError)

\* C13: in every operation of the workspaces, files, integrations, webhooks and
\* health services, a response whose status is outside the success range becomes an
\* HTTP error before any body parsing: the operation returns Err, never a success
\* value, for delete operations and byte downloads as for JSON operations.
C13_NonSuccessStatusIsError ==
    \A i \in 1..Len(calls) :
        (/\ calls[i].c.service \in {"workspaces", "files", "integrations", "webhooks", "health"}
         /\ Answered(calls[i])
         /\ ~SuccessStatus(Answer(calls[i]).status)) =>
            /\ ~Unwrap(calls[i].result).ok
            /\ Unwrap(Unwrap(calls[i].result).err) = Http("Status")

\* the header values a request carries under a name
HeaderValues(rb, name) ==
    {rb.headers[k][2] : k \in {j \in 1..Len(rb.headers) : rb.headers[j][1] = name}}

\* C14: every request an operation sends carries Authorization: Bearer <credential>,
\* the credential being the configured API key unchanged, for JSON, query-parameter,
\* multipart and raw-body requests, with or without a custom transport.
C14_BearerOnEveryRequest ==
    \A i \in 1..Len(calls) : \A k \in 1..Len(calls[i].sent) :
        HeaderValues(calls[i].sent[k], "Authorization") =
            {<<"B", "e", "a", "r", "e", "r", " ">> \o GivenKey}

C14_Witness ==
    \E i \in 1..Len(calls) :
        /\ calls[i].c.op = "upload_file"
        /\ Len(calls[i].sent) = 1
        /\ calls[i].sent[1].body.kind = "multipart"
        /\ calls[i].sent[1].transport.custom
        /\ GivenKey = <<"E9", " ", "*">>

\* the content-upload operations, and the requests a call sent
IsUpload(call) == call.c.op \in {"upload_file", "upload_bytes"}

\* a request that sends its payload as multipart/form-data with the single part file
IsFileForm(rb, call) ==
    /\ rb.body.kind = "multipart"
    /\ HeaderValues(rb, "Content-Type") = {<<"m","u","l","t","i","p","a","r","t","/","f","o","r","m","-","d","a","t","a">>}
    /\ Len(rb.body.parts) = 1
    /\ rb.body.parts[1].name = "file"
    /\ rb.body.parts[1].bytes = call.c.a.file_data
    /\ rb.body.parts[1].file_name = Some(call.c.a.file_name)

\* a request without a body, or with a body sent as application/json
JsonOrNoBody(rb) ==
    \/ rb.body.kind = "none"
    \/ /\ rb.body.kind = "json"
       /\ HeaderValues(rb, "Content-Type") = {<<"a","p","p","l","i","c","a","t","i","o","n","/","j","s","o","n">>}

\* C15 as stated: every content-upload operation sends its payload as
\* multipart/form-data with a single part named file (the caller's bytes and
\* filename), and every other request with a body sends it as application/json.
C15_UploadsAreMultipart ==
    \A i \in 1..Len(calls) : \A k \in 1..Len(calls[i].sent) :
        IF IsUpload(calls[i]) THEN IsFileForm(calls[i].sent[k], calls[i])
        ELSE JsonOrNoBody(calls[i].sent[k])

\* C15, amended: FilesService::upload_file sends its payload as multipart/form-data
\* with a single part named file (the caller's bytes and filename);
\* DocumentService::upload_bytes sends the caller's bytes as the raw request body with
\* Content-Type application/octet-stream; every other request with a body sends it
\* as application/json.
C15_UploadFileIsMultipart ==
    \A i \in 1..Len(calls) : \A k \in 1..Len(calls[i].sent) :
        LET rb == calls[i].sent[k]
        IN  CASE calls[i].c.op = "upload_file" -> IsFileForm(rb, calls[i])
              [] calls[i].c.op = "upload_bytes" ->
                   /\ rb.body.kind = "raw"
                   /\ rb.body.raw = calls[i].c.a.file_data
                   /\ HeaderValues(rb, "Content-Type") = {<<"a","p","p","l","i","c","a","t","i","o","n","/","o","c","t","e","t","-","s","t","r","e","a","m">>}
              [] OTHER -> JsonOrNoBody(rb)

C15_Witness ==
    \E i \in 1..Len(calls) :
        /\ calls[i].c.op = "upload_file"
        /\ Len(calls[i].sent) = 1
        /\ calls[i].c.a.file_data = <<1, 2, 3>>
        /\ calls[i].sent[1].body.parts[1].bytes = <<1, 2, 3>>

\* C16: health(options) sends a GET to the health path with no body when options is
\* None and a POST to the same path with the options serialized as the JSON body
\* when options is Some; a call sends one of the two and never both (it sends
\* nothing only when the request cannot be built).
C16_HealthGetOrPost ==
    \A i \in 1..Len(calls) :
        LET call == calls[i]
            opts == call.c.a.request
            set(f) == IsSome(Unwrap(opts).fields[f])
            val(f) == Unwrap(Unwrap(opts).fields[f])
        IN  call.c.op = "health" =>
              /\ Len(call.sent) <= 1
              /\ (Len(call.sent) = 0) <=>
                    (\/ ~url_parse(base_url(Unwrap(config))).ok
                     \/ "\n" \in {GivenKey[j] : j \in 1..Len(GivenKey)})
              /\ \A k \in 1..Len(call.sent) :
                   /\ call.sent[k].url.path =
                        trim_end_matches(Unwrap(url_parse(base_url(Unwrap(config))).val).path, "/")
                            \o <<"/","h","e","a","l","t","h","/">>
                   /\ IF IsSome(opts)
                      THEN /\ call.sent[k].method = "POST"
                           /\ call.sent[k].body.kind = "json"
                           /\ call.sent[k].body.json =
                                {<<q[1], val(q[2])>> :
                                    q \in {p \in {<<"timeout", "timeout">>,
                                                  <<"useCache", "use_cache">>} : set(p[2])}}
                      ELSE /\ call.sent[k].method = "GET"
                           /\ call.sent[k].body.kind = "none"

C16_Witness ==
    \E i \in 1..Len(calls) :
        /\ calls[i].c.op = "health"
        /\ IsSome(calls[i].c.a.request)
        /\ IsSome(Unwrap(calls[i].c.a.request).fields["timeout"])
        /\ ~IsSome(Unwrap(calls[i].c.a.request).fields["use_cache"])
        /\ Len(calls[i].sent) = 1
        /\ calls[i].sent[1].method = "POST"

\* C17: no operation retries: a call sends at most one request, and when that request
\* fails at the transport level, returns a non-success status, or its body fails to
\* parse, the call returns that error without any further request or substitute value.
C17_NoRetryErrorsReturned ==
    \A i \in 1..Len(calls) :
        LET call == calls[i]
            reply == Unwrap(call.response)
        IN  /\ Len(call.sent) <= 1
            /\ (call.done /\ IsSome(call.response)) =>
                 /\ ~reply.ok => Unwrap(call.result) = reply
                 /\ (reply.ok /\ ~SuccessStatus(Unwrap(reply.val).status)) =>
                        ~Unwrap(call.result).ok
                 /\ (reply.ok /\ call.plan.kind # "unit"
                              /\ Unwrap(reply.val).body.tag \in {"text", "broken"}
                              /\ call.plan.kind # "bytes") =>
                        ~Unwrap(call.result).ok

\* the inner state NvisyClient::new made from the configuration, and the requests
\* a call with operation c sends when it is the only call made on that state
ConstructedInner == Unwrap(new(Unwrap(config), TRUE).val)
SentAlone(c) ==
    LET p == plan(ConstructedInner, c)
    IN  IF p.req.ok /\ ~Unwrap(p.req.val).error THEN <<Unwrap(p.req.val)>> ELSE <<>>

\* C18: the inner state (configuration and transport) is never modified after
\* construction: under any interleaving of calls made through any number of clones,
\* the configuration a call reads is the one given at construction, and the request
\* a call builds (URL, headers, body) is the one it builds alone, whatever other
\* calls are in flight or finished.
C18_InnerStateImmutable ==
    /\ \A j \in 1..Len(heap) : heap[j] = ConstructedInner
    /\ \A i \in 1..Len(calls) :
         /\ client_config(heap[calls[i].inner]) = Unwrap(config)
         /\ calls[i].sent = SentAlone(calls[i].c)
         /\ \A j \in 1..Len(calls) :
              calls[i].c = calls[j].c => calls[i].sent = calls[j].sent

C18_Witness ==
    /\ Len(handles) >= 2
    /\ Len(calls) = 2
    /\ calls[1].c.op # calls[2].c.op
    /\ ~calls[1].done
    /\ calls[2].done
    /\ Len(calls[1].sent) = 1
    /\ Len(calls[2].sent) = 1
    /\ heap[1].client.custom

\* the key under which a field of a request type is serialized
KeyOf(type, f) ==
    Schema(type)[CHOOSE i \in 1..Len(Schema(type)) : Schema(type)[i].field = f].key

\* C19: for every update request type (UpdateWorkspace, UpdateNotificationSettings,
\* UpdateWebhook, UpdateIntegration, UpdateDocumentRequest) the serialized body holds
\* exactly the fields that are set: a None field is left out, never sent as null, and
\* an all-None update serializes to the empty object.
C19_UpdateBodyHasSetFieldsOnly ==
    \A i \in 1..Len(calls) : \A k \in 1..Len(calls[i].sent) :
        LET d == calls[i].c.a.data
            present == {f \in DOMAIN d.fields : IsSome(d.fields[f])}
            sentBody == calls[i].sent[k].body
        IN  d.type \in {"UpdateWorkspace", "UpdateNotificationSettings", "UpdateWebhook",
                        "UpdateIntegration", "UpdateDocumentRequest"} =>
              /\ sentBody.kind = "json"
              /\ sentBody.json = {<<KeyOf(d.type, f), Unwrap(d.fields[f])>> : f \in present}
              /\ \A p \in sentBody.json : p[2].t # "null"
              /\ present = {} => sentBody.json = {}

C19_Witness ==
    \E i \in 1..Len(calls) :
        /\ calls[i].c.op = "update_integration"
        /\ \A f \in DOMAIN calls[i].c.a.data.fields : ~IsSome(calls[i].c.a.data.fields[f])
        /\ Len(calls[i].sent) = 1
        /\ calls[i].sent[1].body.kind = "json"
        /\ calls[i].sent[1].body.json = {}

\* C20: NvisyClient::new(config) uses the injected transport when the configuration
\* carries one and otherwise builds a transport whose timeout is the configured
\* timeout; either way the client's config() is the configuration passed in.
C20_NewAdoptsOrBuildsTransport ==
    \A j \in 1..Len(heap) :
        LET c == Unwrap(config)
        IN  /\ client_config(heap[j]) = c
            /\ IF IsSome(client(c))
               THEN heap[j].client = Unwrap(client(c))
               ELSE /\ ~heap[j].client.custom
                    /\ heap[j].client.timeout = Some(timeout(c))

C20_Witness ==
    /\ Len(heap) = 1
    /\ via = "new"
    /\ IsSome(client(Unwrap(config)))
    /\ heap[1].client.custom
    /\ IsSome(builder.timeout)


\* the record upload_file returned, for a call that returned one
Uploaded(call) ==
    call.c.op = "upload_file" /\ IsSome(call.result) /\ Unwrap(call.result).ok
ReturnedFile(call) == Unwrap(Unwrap(call.result).val)

\* C21: against an API that stores uploaded content faithfully, upload_file puts the
\* byte sequence B unchanged in the file part of its request and returns a record
\* whose size is the length of B, and download_file of the returned record's id
\* returns exactly B.
C21_UploadDownloadRoundTrip ==
    \A u \in 1..Len(calls) :
        /\ (calls[u].c.op = "upload_file" /\ calls[u].sent # <<>>) =>
              calls[u].sent[1].body.parts[1].bytes = calls[u].c.a.file_data
        /\ (calls[u].c.op = "upload_file" /\ Answered(calls[u])) =>
              /\ Unwrap(calls[u].result).ok
              /\ ReturnedFile(calls[u]).items[1].size = Len(calls[u].c.a.file_data)
        /\ \A d \in 1..Len(calls) :
              (/\ Uploaded(calls[u])
               /\ calls[d].c.op = "download_file"
               /\ calls[d].c.a.id = DecString(ReturnedFile(calls[u]).id)
               /\ Answered(calls[d])) =>
                  Unwrap(calls[d].result) = Ok(Value("Vec<u8>", 0, calls[u].c.a.file_data))

C21_Witness ==
    \E u, d \in 1..Len(calls) :
        /\ Uploaded(calls[u])
        /\ calls[u].c.a.file_data = <<3, 1, 2>>
        /\ ReturnedFile(calls[u]).items[1].size = 3
        /\ calls[d].c.op = "download_file"
        /\ calls[d].c.a.id = DecString(ReturnedFile(calls[u]).id)
        /\ Answered(calls[d])
        /\ Unwrap(calls[d].result) = Ok(Value("Vec<u8>", 0, <<3, 1, 2>>))

\* C22: download_files_batch does not reject an empty id list: whenever a request
\* can be built at all it sends a GET to the workspace's batch path whose JSON body
\* holds the id list as given, empty or not and in the given order, and the chosen
\* archive format.
C22_BatchDownloadPassesIdsAndFormat ==
    \A i \in 1..Len(calls) :
        calls[i].c.op = "download_files_batch" =>
            /\ (calls[i].sent = <<>>) <=>
                  (\/ ~url_parse(base_url(Unwrap(config))).ok
                   \/ "\n" \in {GivenKey[j] : j \in 1..Len(GivenKey)})
            /\ \A k \in 1..Len(calls[i].sent) :
                 /\ calls[i].sent[k].method = "GET"
                 /\ calls[i].sent[k].url.path =
                      trim_end_matches(Unwrap(url_parse(base_url(Unwrap(config))).val).path, "/")
                          \o <<"/","w","o","r","k","s","p","a","c","e","s","/">> \o calls[i].c.a.id \o <<"/","f","i","l","e","s","/","b","a","t","c","h">>
                 /\ calls[i].sent[k].body.kind = "json"
                 /\ calls[i].sent[k].body.json =
                      {<<"fileIds", JList(calls[i].c.a.file_ids)>>,
                       <<"format", JStr(calls[i].c.a.format)>>}

C22_Witness ==
    \E i \in 1..Len(calls) :
        /\ calls[i].c.op = "download_files_batch"
        /\ calls[i].c.a.file_ids = <<>>
        /\ calls[i].c.a.format = "TarGz"
        /\ Len(calls[i].sent) = 1
        /\ <<"fileIds", JList(<<>>)>> \in calls[i].sent[1].body.json

\* C23: paging from offset 0 with a limit L >= 1 against a fixed total T, where each
\* response echoes the requested offset and limit, ends with next_page() = None after
\* finitely many pages; each next offset is greater than the previous one and is
\* where the previous window ended, and the last window reaches T, so the windows
\* are disjoint and cover [0, T).
C23_PagingTerminatesExact ==
    /\ [](~out.res.panic)
    /\ [][/\ u32_lt(resp.offset, resp'.offset)
          /\ MathSum(resp.offset, resp.limit).carry = 0
          /\ resp'.offset = MathSum(resp.offset, resp.limit).val
          /\ resp'.limit = resp.limit]_resp
    /\ []((out.op = "next_page" /\ ~out.res.panic /\ ~IsSome(out.res.val)) =>
            ~MathSumLt(resp.offset, resp.limit, resp.total))
    /\ <>(out.op = "next_page" /\ ~out.res.panic /\ ~IsSome(out.res.val))

\* C24: masked_api_key, and with it the Debug rendering of NvisyConfig and of
\* NvisyClient, returns without panicking for every credential the builder accepts,
\* also when a character of several bytes is among the first four.
C24_MaskingNeverPanics ==
    out.op \in {"masked_api_key", "config_debug", "client_debug"} => ~out.res.panic

\* the path of an operation: the path of the request it builds on a client whose
\* base URL is a bare host
BareHost ==
    [config |-> [api_key |-> <<"a">>, base_url |-> <<"h","t","t","p",":","/","/","x">>, timeout |-> DEFAULT_TIMEOUT,
                 client |-> None],
     client |-> CustomTransport]
OpPath(c) == Unwrap(plan(BareHost, c).req.val).url.path

\* what C25 says of one call: UrlParse and nothing sent when the base URL does not
\* parse, and otherwise the base URL's path without its trailing slashes, then the
\* operation's path
ThroughParseUrl(call) ==
    LET Composed(u) ==
            IF ~u.ok
            THEN /\ call.sent = <<>>
                 /\ call.result = Some(Err(UrlParseError))
            ELSE \A k \in 1..Len(call.sent) :
                    call.sent[k].url.path = trim_end_matches(Unwrap(u.val).path, "/") \o OpPath(call.c)
    IN  Composed(url_parse(base_url(Unwrap(config))))

ConstructedTransport ==
    IF IsSome(builder.client) THEN Unwrap(Unwrap(builder.client))
    ELSE BuiltTransport(timeout(Unwrap(config)))

\* C26 as stated: every request the client builds carries the configured timeout as
\* its own timeout and goes to the transport of the construction, the injected one
\* as it was given; the timeout is the one of the configuration at every call.
C26_TimeoutOnEveryRequest ==
    \A i \in 1..Len(calls) : \A k \in 1..Len(calls[i].sent) :
        /\ calls[i].sent[k].timeout = Some(timeout(Unwrap(config)))
        /\ calls[i].sent[k].transport = ConstructedTransport

\* C26, amended: that holds for every request built by NvisyClient::request, which
\* the workspaces, files, integrations, webhooks and health operations all use;
\* DocumentService::upload_bytes builds its request on the transport itself and sets
\* no timeout on it.
C26_TimeoutOnRequestsOfRequest ==
    \A i \in 1..Len(calls) : \A k \in 1..Len(calls[i].sent) :
        /\ calls[i].sent[k].transport = ConstructedTransport
        /\ calls[i].c.service # "documents" =>
              calls[i].sent[k].timeout = Some(timeout(Unwrap(config)))
        /\ calls[i].c.op = "upload_bytes" => calls[i].sent[k].timeout = None

C26_Witness ==
    /\ IsSome(builder.client)
    /\ timeout(Unwrap(config)) = from_secs(MaxSmall)
    /\ \E i \in 1..Len(calls) :
         /\ calls[i].c.op = "update_workspace"
         /\ Len(calls[i].sent) = 1
         /\ calls[i].sent[1].timeout = Some(from_secs(MaxSmall))
         /\ calls[i].sent[1].transport = CustomTransport

\* the Debug rendering observed, had the credential been k (same base URL and timeout)
RenderingWith(k) ==
    IF out.op = "client_debug"
    THEN client_debug([heap[1] EXCEPT !.config.api_key = k])
    ELSE config_debug([Unwrap(config) EXCEPT !.api_key = k])

\* C27: the Debug rendering shows nothing of the credential beyond its first 4
\* characters: with the same base URL and timeout, two credentials of more than 4
\* characters that agree on their first 4 characters give the same rendering, and so
\* do any two credentials of 4 or fewer characters.
C27_DebugRevealsPrefixOnly ==
    IsDebugOut =>
        \A k \in Secrets \ {<<>>} :
            (\/ /\ Len(RenderedKey) > MaskPrefixLen
                /\ Len(k) > MaskPrefixLen
                /\ SubSeq(RenderedKey, 1, MaskPrefixLen) = SubSeq(k, 1, MaskPrefixLen)
             \/ /\ Len(RenderedKey) <= MaskPrefixLen
                /\ Len(k) <= MaskPrefixLen) =>
                out.res = RenderingWith(k)

\* two extensions that differ only in letter case and in their leading dots
SameLetter(a, b) ==
    \/ a = b
    \/ \E n \in 1..Len(UpperCase) : {a, b} = {UpperCase[n], LowerCase[n]}
SameExtension(e, f) ==
    LET Same(x, y) == Len(x) = Len(y) /\ \A i \in 1..Len(x) : SameLetter(x[i], y[i])
    IN  Same(trim_start_matches(e, "."), trim_start_matches(f, "."))

\* C28: from_extension(extension(t)) = t for every DocumentType t; from_extension
\* gives the same type for extensions that differ only in letter case and leading
\* dots, the type of the name for a name it knows, and Other for every other one.
C28_ExtensionRoundTrip ==
    /\ out.op = "detect" => out.res.val = out.arg[1]
    /\ out.op = "from_extension" =>
         /\ \A f \in Extensions : SameExtension(out.arg, f) => from_extension(f) = out.res.val
         /\ \A t \in DocumentTypes : SameExtension(out.arg, extension(t)) => out.res.val = t
         /\ (\A n \in ExtensionNames \ {<<"b","i","n">>, <<"e","x","e">>, <<"p","d">>, <<"p","d","f","x">>, <<"p","d","f",".">>, <<"p",".","d","f">>,
                                        <<"p", "d", "f", "E9">>, <<>>} :
                ~SameExtension(out.arg, n)) => out.res.val = "Other"

C28_Witness ==
    /\ out.op = "from_extension"
    /\ out.arg = <<".",".","J","P","E","G">>
    /\ out.res.val = "Jpeg"

\* the product of two 32-bit values as an integer, by columns of base-256 digits:
\* its low 32 bits and what lies above them
MathProduct(a, b) ==
    LET x == <<a.lo % 256, a.lo \div 256, a.hi % 256, a.hi \div 256>>
        y == <<b.lo % 256, b.lo \div 256, b.hi % 256, b.hi \div 256>>
        Term(i, k) == IF k + 2 - i \in 1..4 THEN x[i] * y[k + 2 - i] ELSE 0
        T[k \in 0..7] == Term(1, k) + Term(2, k) + Term(3, k) + Term(4, k)
                           + IF k = 0 THEN 0 ELSE T[k - 1] \div 256
    IN  [val |-> U32((T[3] % 256) * 256 + (T[2] % 256), (T[1] % 256) * 256 + (T[0] % 256)),
         above |-> {k \in 4..7 : T[k] % 256 # 0}]

\* C29: Pagination::page(p, n) has limit n and offset (p - 1) * n for p >= 1 and
\* offset 0 for p = 0, the offset being the product as an integer: it never
\* overflows or wraps, whatever the 32-bit p and n.
C29_PageOffsetIsProduct ==
    out.op = "page" =>
        LET Offset(product) ==
                /\ ~out.res.panic
                /\ product.above = {}
                /\ out.res.val = [offset |-> Some(product.val), limit |-> Some(out.arg[2])]
        IN  Offset(MathProduct(IF out.arg[1] = U32(0, 0) THEN U32(0, 0)
                               ELSE saturating_sub_one(out.arg[1]),
                               out.arg[2]))

\* a response with which the request of a download has fully succeeded
Succeeded(o) ==
    /\ o.ok
    /\ Unwrap(o.val).status \in 200..299
    /\ Unwrap(o.val).body.tag # "broken"

\* the download call i returns in this step
Returning(i) ==
    /\ i \in 1..Len(calls)
    /\ Len(calls') = Len(calls)
    /\ calls[i].c.op = "download"
    /\ ~calls[i].done
    /\ calls'[i].done

\* C30: download writes its target file only once its request has fully succeeded
\* (after a transport failure, a non-2xx status or a broken body no file of the
\* disk has changed and the call returns that error); upload sends no request when
\* its source file cannot be read, and returns the I/O error.
C30_LocalIoAroundTheCall ==
    [][/\ \A q \in Paths :
            disk'[q] # disk[q] =>
                \E i \in 1..Len(calls) :
                    /\ Returning(i)
                    /\ calls[i].c.a.path = q
                    /\ Succeeded(Unwrap(calls'[i].response))
       /\ \A i \in 1..Len(calls) :
            Returning(i) /\ ~Succeeded(Unwrap(calls'[i].response)) =>
                /\ disk' = disk
                /\ ~Unwrap(calls'[i].result).ok
                /\ Unwrap(Unwrap(calls'[i].result).err).variant = "Http"
       /\ \A q \in Paths :
            (/\ Len(calls') = Len(calls) + 1
             /\ calls'[Len(calls')].c.op = "upload"
             /\ calls'[Len(calls')].c.a.path = q
             /\ disk[q].access = "denied" \/ disk[q].content = None) =>
                /\ calls'[Len(calls')].sent = <<>>
                /\ calls'[Len(calls')].done
                /\ ~Unwrap(calls'[Len(calls')].result).ok
                /\ Unwrap(Unwrap(calls'[Len(calls')].result).err).variant = "Io"
      ]_vars

C30_Witness ==
    /\ \E i \in 1..Len(calls) :
         /\ calls[i].c.op = "download"
         /\ calls[i].done
         /\ Unwrap(calls[i].result).ok
         /\ disk[calls[i].c.a.path].content = Some(<<1, 2, 3>>)
    /\ \E i \in 1..Len(calls) :
         /\ calls[i].c.op = "upload"
         /\ calls[i].sent = <<>>
         /\ Unwrap(Unwrap(calls[i].result).err).variant = "Io"

====
